---- MODULE Spec2Model ----
(***************************************************************************)
(* A model of the agent governance substrate: the hash-chained, signed     *)
(* AgentActivityLedger and the AgentIdentityRegistry, with the JavaScript  *)
(* value semantics (truthiness, JSON serialisation) their code relies on.  *)
(***************************************************************************)
EXTENDS Integers, Sequences, FiniteSets, TLC

(***************************************************************************)
(* Bounds of the model.                                                    *)
(***************************************************************************)
MaxEntries == 2
MaxClock == 1
MaxPatch == 1
MaxTime == 1
MaxCalls == 2
MaxScoreStep == 102

(***************************************************************************)
(* JavaScript values.  Every value is a tagged tuple, so that values of    *)
(* different JavaScript types can be compared.  Iso(n) is the ISO-8601     *)
(* string of the instant n ms after the Unix epoch; Hex(x) is the hex      *)
(* string of a digest or signature computed from x.  An object is the      *)
(* sequence of its <<key, value>> properties in insertion order.           *)
(***************************************************************************)
Null == <<"null">>
Undefined == <<"undefined">>
Str(s) == <<"str", s>>
Num(n) == <<"num", n>>
Iso(n) == <<"iso", n>>
Hex(x) == <<"hex", x>>
Obj(props) == <<"obj", props>>

\* ToBoolean: the falsy values are null, undefined, "", 0 and false.
Bool(b) == <<"bool", b>>
Truthy(v) == v \notin {Null, Undefined, Str(""), Num(0), Bool(FALSE)}

\* a || b
Or(a, b) == IF Truthy(a) THEN a ELSE b

\* JSON.stringify of an object: a property whose value is undefined is left out.
StringifyProps(props) == SelectSeq(props, LAMBDA p : p[2] # Undefined)

\* JSON.stringify of a value: objects are serialised property by property.
Stringify(v) == IF v[1] = "obj" THEN Obj(StringifyProps(v[2])) ELSE v

(***************************************************************************)
(* Keys.  A key pair is named by its public key; PublicOf gives the        *)
(* counterpart of a private key.  crypto.sign throws on anything that is   *)
(* not a private key.                                                      *)
(***************************************************************************)
PublicKeys == {Str("pk1"), Str("pk2")}
PrivateKeys == {Str("sk1"), Str("sk2")}
PublicOf(privateKey) == IF privateKey = Str("sk1") THEN Str("pk1") ELSE Str("pk2")

\* A signing slip: the signature is made over the digest of the data.
SignDigestOfData(data, privateKey) == Hex(<<"sig", Hex(<<"sha256", data>>), PublicOf(privateKey)>>)

\* crypto.sign('sha256', data, {key: privateKey, padding: PSS}).toString('hex')
Sign(data, privateKey) == Hex(<<"sig", data, PublicOf(privateKey)>>)

\* crypto.verify('sha256', data, {key: publicKey, padding: PSS}, signature)
Verify(data, publicKey, signature) == signature = Hex(<<"sig", data, publicKey>>)

(***************************************************************************)
(* AgentActivityLedger                                                     *)
(***************************************************************************)
VARIABLES
    entries,        \* ledger.entries: the sequence of ledger entries
    ledgerFile,     \* the content of the ledger file, or NoFile
    loaded,         \* the entries of the ledger loadFromFile returned last
    now,            \* the clock read by new Date()
    ret,            \* the last call and what it returned or threw
    identities,     \* registry.store.identities, in insertion order
    lastActionTimestamps,   \* registry.store.lastActionTimestamps
    storeFile,      \* the content of the identity store file
    metrics,        \* the performance snapshot handed to TrustScoringEngine
    history,        \* the history handed to TrustScoringEngine
    trustScore,     \* agent.performance.trustScore of the agent that proposes
    proposal,       \* the proposal handed to PreExecutionValidator
    calls           \* what the engine calls made so far returned, in order

ledgerVars == <<entries, ledgerFile, loaded>>
registryVars == <<identities, lastActionTimestamps, storeFile>>
engineVars == <<metrics, history, trustScore, proposal, calls>>
vars == <<entries, ledgerFile, loaded, now, ret, identities, lastActionTimestamps,
          storeFile, metrics, history, trustScore, proposal, calls>>

\* No file at the path.
NoFile == [exists |-> FALSE, createdAt |-> Null, entries |-> <<>>]

\* The properties of a ledger entry, in the order addEntry creates them.
EntryFields ==
    <<"index", "timestamp", "agentId", "actionType", "details", "prevHash",
      "hash", "signature", "publicKey">>

\* An entry is a record of these properties and of frozen, the mark
\* Object.freeze leaves on the object (shallow: details is not frozen by it).

\* The fields the entry hash covers.
HashCovered == {"index", "timestamp", "agentId", "actionType", "details", "prevHash"}

\* AgentActivityLedger._serializeEntryForHash
SerializeEntryForHash(entry) ==
    StringifyProps(<< <<"index", entry.index>>,
                      <<"timestamp", entry.timestamp>>,
                      <<"agentId", entry.agentId>>,
                      <<"actionType", entry.actionType>>,
                      <<"details", Stringify(entry.details)>>,
                      <<"prevHash", Or(entry.prevHash, Null)>> >>)

\* AgentActivityLedger._hash: SHA-256, taken to be collision free.
Hash(data) == Hex(<<"sha256", data>>)

\* AgentActivityLedger.verifyEntrySignature: Buffer.from throws on a signature
\* that is not a string, crypto.verify on a publicKey that is not a key, and the
\* message of the error is returned as the reason.
VerifyEntrySignature(entry) ==
    IF Hash(SerializeEntryForHash(entry)) # entry.hash
    THEN [valid |-> FALSE, reason |-> "HASH_MISMATCH"]
    ELSE IF entry.signature[1] \notin {"str", "hex"}
    THEN [valid |-> FALSE, reason |-> "ERR_INVALID_ARG_TYPE"]
    ELSE IF entry.publicKey \notin PublicKeys
    THEN [valid |-> FALSE, reason |-> "ERR_INVALID_KEY"]
    ELSE [valid |-> Verify(entry.hash, entry.publicKey, entry.signature),
          reason |-> "INVALID_SIGNATURE"]

\* The check verifyChain makes of the entry at position i (1-based) of es.
EntryDefect(es, i) ==
    LET e == es[i] IN
    IF Hash(SerializeEntryForHash(e)) # e.hash THEN "HASH_MISMATCH"
    ELSE IF i = 1 /\ e.prevHash # Null THEN "GENESIS_PREVHASH_NOT_NULL"
    ELSE IF i > 1 /\ e.prevHash # es[i - 1].hash THEN "CHAIN_LINK_BROKEN"
    ELSE IF ~VerifyEntrySignature(e).valid THEN VerifyEntrySignature(e).reason
    ELSE "OK"

\* AgentActivityLedger.verifyChain; index is the 0-based index of the code.
VerifyChain(es) ==
    LET bad == {i \in 1..Len(es) : EntryDefect(es, i) # "OK"} IN
    IF Len(es) = 0 THEN [valid |-> TRUE, index |-> -1, reason |-> "EMPTY"]
    ELSE IF bad = {} THEN [valid |-> TRUE, index |-> -1, reason |-> "NONE"]
    ELSE LET i == CHOOSE m \in bad : \A k \in bad : m <= k
         IN [valid |-> FALSE, index |-> i - 1, reason |-> EntryDefect(es, i)]

\* A linking slip: the draft is never linked to its predecessor.
NewEntryUnlinked(es, t, agentId, publicKey, privateKey, actionType, details) ==
    LET draft == [index |-> Num(Len(es)),
                  timestamp |-> Iso(t),
                  agentId |-> agentId,
                  actionType |-> actionType,
                  details |-> IF details = Undefined THEN Obj(<<>>) ELSE details,
                  prevHash |-> Null,
                  hash |-> Null,
                  signature |-> Null,
                  publicKey |-> publicKey,
                  frozen |-> FALSE]
        entryHash == Hash(SerializeEntryForHash(draft))
    IN [draft EXCEPT !.hash = entryHash,
                     !.signature = Sign(entryHash, privateKey),
                     !.frozen = TRUE]

\* The draft entry addEntry builds, hashes and signs.
NewEntry(es, t, agentId, publicKey, privateKey, actionType, details) ==
    LET index == Len(es)
        draft == [index |-> Num(index),
                  timestamp |-> Iso(t),
                  agentId |-> agentId,
                  actionType |-> actionType,
                  details |-> IF details = Undefined THEN Obj(<<>>) ELSE details,
                  prevHash |-> IF index = 0 THEN Null ELSE es[index].hash,
                  hash |-> Null,
                  signature |-> Null,
                  publicKey |-> publicKey,
                  frozen |-> FALSE]
        entryHash == Hash(SerializeEntryForHash(draft))
    IN [draft EXCEPT !.hash = entryHash,
                     !.signature = Sign(entryHash, privateKey),
                     !.frozen = TRUE]

\* An ordering slip: the draft is appended before it is signed.
AddEntryAppendsBeforeSigning(es, t, agentId, publicKey, privateKey, actionType, details) ==
    IF ~Truthy(agentId) \/ ~Truthy(publicKey) \/ ~Truthy(privateKey) \/ ~Truthy(actionType)
    THEN [threw |-> TRUE, result |-> "REQUIRED", entries |-> es]
    ELSE IF privateKey \notin PrivateKeys
    THEN [threw |-> TRUE, result |-> "SIGN_ERROR",
          entries |-> Append(es, [NewEntry(es, t, agentId, publicKey, Str("sk1"),
                                           actionType, details)
                                     EXCEPT !.signature = Null])]
    ELSE [threw |-> FALSE, result |-> "ENTRY",
          entries |-> Append(es, NewEntry(es, t, agentId, publicKey, privateKey,
                                          actionType, details))]

\* What addEntry does to ledger.entries: threw tells whether it raised an error.
AddEntryOutcome(es, t, agentId, publicKey, privateKey, actionType, details) ==
    IF ~Truthy(agentId) \/ ~Truthy(publicKey) \/ ~Truthy(privateKey) \/ ~Truthy(actionType)
    THEN [threw |-> TRUE, result |-> "REQUIRED", entries |-> es]
    ELSE IF privateKey \notin PrivateKeys
    THEN [threw |-> TRUE, result |-> "SIGN_ERROR", entries |-> es]
    ELSE [threw |-> FALSE, result |-> "ENTRY",
          entries |-> Append(es, NewEntry(es, t, agentId, publicKey, privateKey,
                                          actionType, details))]

\* The instants a call may read from the clock: time does not run backwards.
Clock == {t \in now..(now + 1) : t <= MaxClock}

\* ledger.addEntry({agentId, publicKey, privateKey, actionType, details})
AddEntry(agentId, publicKey, privateKey, actionType, details) ==
    \E t \in Clock :
        LET out == AddEntryOutcome(entries, t, agentId, publicKey, privateKey,
                                   actionType, details)
        IN /\ Len(out.entries) <= MaxEntries
           /\ entries' = out.entries
           /\ now' = t
           /\ ret' = [op |-> "addEntry", threw |-> out.threw, result |-> out.result]
           /\ UNCHANGED <<ledgerFile, loaded, registryVars, engineVars>>

\* The value of property key in the parsed JSON object props, undefined if absent.
Get(props, key) ==
    IF \E k \in 1..Len(props) : props[k][1] = key
    THEN props[CHOOSE k \in 1..Len(props) : props[k][1] = key][2]
    ELSE Undefined

\* A serialisation slip: null-valued properties are left out like undefined ones.
EntryToJSONDroppingNull(e) ==
    SelectSeq([k \in 1..Len(EntryFields) |->
                  <<EntryFields[k], Stringify(e[EntryFields[k]])>>],
              LAMBDA p : p[2] \notin {Undefined, Null})

\* JSON.stringify of one entry, as toJSON / saveToFile write it.
EntryToJSON(e) ==
    StringifyProps([k \in 1..Len(EntryFields) |->
                       <<EntryFields[k], Stringify(e[EntryFields[k]])>>])

\* One entry as loadFromFile builds it: JSON.parse, then Object.freeze.
EntryFromJSON(props) ==
    [index |-> Get(props, "index"),
     timestamp |-> Get(props, "timestamp"),
     agentId |-> Get(props, "agentId"),
     actionType |-> Get(props, "actionType"),
     details |-> Get(props, "details"),
     prevHash |-> Get(props, "prevHash"),
     hash |-> Get(props, "hash"),
     signature |-> Get(props, "signature"),
     publicKey |-> Get(props, "publicKey"),
     frozen |-> TRUE]

\* The file content saveToFile writes for the entries es at instant t.
FileOf(es, t) ==
    [exists |-> TRUE, createdAt |-> Iso(t),
     entries |-> [i \in 1..Len(es) |-> EntryToJSON(es[i])]]

\* The entries AgentActivityLedger.loadFromFile builds from a file content.
LoadEntries(file) == [i \in 1..Len(file.entries) |-> EntryFromJSON(file.entries[i])]

\* ledger.saveToFile(ledgerPath)
SaveToFile ==
    \E t \in Clock :
        /\ ledgerFile' = FileOf(entries, t)
        /\ now' = t
        /\ ret' = [op |-> "saveToFile", threw |-> FALSE, result |-> "PATH"]
        /\ UNCHANGED <<entries, loaded, registryVars, engineVars>>

\* AgentActivityLedger.loadFromFile(ledgerPath); readFileSync throws without a file.
LoadFromFile ==
    /\ loaded' = IF ledgerFile.exists THEN LoadEntries(ledgerFile) ELSE loaded
    /\ ret' = [op |-> "loadFromFile", threw |-> ~ledgerFile.exists,
               result |-> IF ledgerFile.exists THEN "LEDGER" ELSE "ENOENT"]
    /\ UNCHANGED <<entries, ledgerFile, now, registryVars, engineVars>>

\* The object props with property key set to v.
SetProp(props, key, v) ==
    IF \E k \in 1..Len(props) : props[k][1] = key
    THEN [k \in 1..Len(props) |-> IF props[k][1] = key THEN <<key, v>> ELSE props[k]]
    ELSE Append(props, <<key, v>>)

\* The file content with property field of entry i (1-based) overwritten by v.
TamperedFile(file, i, field, v) ==
    [file EXCEPT !.entries[i] = SetProp(@, field, v)]

\* The tamper test: read the ledger file, overwrite one property of one entry,
\* write the result to a second path and load the ledger from there.
LoadTamperedCopy(i, field, v) ==
    /\ ledgerFile.exists
    /\ i \in 1..Len(ledgerFile.entries)
    /\ Get(ledgerFile.entries[i], field) # v
    /\ loaded' = LoadEntries(TamperedFile(ledgerFile, i, field, v))
    /\ ret' = [op |-> "loadFromFile", threw |-> FALSE, result |-> "TAMPERED"]
    /\ UNCHANGED <<entries, ledgerFile, now, registryVars, engineVars>>

\* A caller holding the details object of entry i (the one it passed to addEntry,
\* or the one reached through getEntries) assigns details[key] = v.  The entry
\* is frozen, its details object is not: the assignment takes effect.
SetDetailsProperty(i, key, v) ==
    /\ i \in 1..Len(entries)
    /\ entries[i].details[1] = "obj"
    /\ entries' = [entries EXCEPT ![i].details = Obj(SetProp(@[2], key, v))]
    /\ ret' = [op |-> "setDetailsProperty", threw |-> FALSE, result |-> "ASSIGNED"]
    /\ UNCHANGED <<ledgerFile, loaded, now, registryVars, engineVars>>

\* A caller assigns getEntries()[i][field] = v: a TypeError on a frozen entry
\* (the modules are strict-mode code), an overwrite otherwise.
AssignEntryField(i, field, v) ==
    /\ i \in 1..Len(entries)
    /\ entries' = IF entries[i].frozen THEN entries
                  ELSE [entries EXCEPT ![i][field] = v]
    /\ ret' = [op |-> "assignEntryField", threw |-> entries[i].frozen,
               result |-> IF entries[i].frozen THEN "TypeError" ELSE "ASSIGNED"]
    /\ UNCHANGED <<ledgerFile, loaded, now, registryVars, engineVars>>

\* The file content with entry i (1-based) signed anew by another key pair: its
\* signature becomes that of privateKey over the stored hash, and its publicKey
\* the counterpart of privateKey.  No other property is touched.
ResignedFile(file, i, privateKey) ==
    TamperedFile(TamperedFile(file, i, "signature",
                              Sign(Get(file.entries[i], "hash"), privateKey)),
                 i, "publicKey", PublicOf(privateKey))

\* The forgery test: read the ledger file, replace the signature and the
\* publicKey of one entry by those of a different key pair, write the result
\* to a second path and load the ledger from there.
LoadResignedCopy(i, privateKey) ==
    /\ ledgerFile.exists
    /\ i \in 1..Len(ledgerFile.entries)
    /\ Get(ledgerFile.entries[i], "publicKey") # PublicOf(privateKey)
    /\ loaded' = LoadEntries(ResignedFile(ledgerFile, i, privateKey))
    /\ ret' = [op |-> "loadFromFile", threw |-> FALSE, result |-> "RESIGNED"]
    /\ UNCHANGED <<entries, ledgerFile, now, registryVars, engineVars>>

(***************************************************************************)
(* PersistentAgentIdentity and AgentIdentityRegistry                       *)
(***************************************************************************)
Origins == {Str("o1"), Str("o2")}

\* PersistentAgentIdentity._generateKeyFingerprint, as the id "did:agent:<hex>".
Fingerprint(publicKey) ==
    IF publicKey = Str("pk1") THEN Str("did:agent:pk1") ELSE Str("did:agent:pk2")

\* The ids an identity can be stored under.
Ids == {Fingerprint(k) : k \in PublicKeys} \cup {Str("x")}

\* "1.0.n" and an array of n history entries.
Ver(n) == <<"ver", n>>
Hist(n) == <<"arr", n>>

\* A metadata object, by its identityVersion and its versionHistory.
Meta(identityVersion, versionHistory) == <<"meta", identityVersion, versionHistory>>
IdentityVersion(metadata) == metadata[2]
VersionHistory(metadata) == metadata[3]

\* The metadata the PersistentAgentIdentity constructor builds when none is given.
DefaultMetadata == Meta(Ver(0), Hist(1))

\* Caller-supplied metadata without a versionHistory, as the API test passes.
BareMetadata == Meta(Ver(0), Undefined)

\* new PersistentAgentIdentity({publicKey, originSystem, id, metadata})
NewIdentity(publicKey, originSystem, id, metadata) ==
    [id |-> Or(id, Fingerprint(publicKey)),
     publicKey |-> publicKey,
     originSystem |-> originSystem,
     metadata |-> IF metadata = Null THEN DefaultMetadata ELSE metadata]

\* identity.upgrade(action, details, null, performance): throws a TypeError when
\* metadata lacks identityVersion (split) or versionHistory (spread).
UpgradeThrows(identity) ==
    \/ IdentityVersion(identity.metadata) = Undefined
    \/ VersionHistory(identity.metadata) = Undefined

\* The identity upgrade returns: patch version bumped, one history entry more.
Upgrade(identity) ==
    [identity EXCEPT !.metadata =
        Meta(Ver(IdentityVersion(identity.metadata)[2] + 1),
             Hist(VersionHistory(identity.metadata)[2] + 1))]

\* The positions of the stored records with this id / this public key.
PosById(idents, id) == {k \in 1..Len(idents) : idents[k].id = id}
PosByKey(idents, publicKey) == {k \in 1..Len(idents) : idents[k].publicKey = publicKey}
First(S) == CHOOSE m \in S : \A k \in S : m <= k

\* store.identities[rec.id] = rec: an existing id keeps its place in the order.
Put(idents, rec) ==
    IF PosById(idents, rec.id) # {}
    THEN [k \in 1..Len(idents) |-> IF idents[k].id = rec.id THEN rec ELSE idents[k]]
    ELSE Append(idents, rec)

\* A registration slip: the origin a key is bound to is never checked.
RegisterOutcomeUnchecked(idents, publicKey, originSystem, id, metadata, force) ==
    IF ~Truthy(publicKey) \/ ~Truthy(originSystem)
    THEN [threw |-> TRUE, result |-> "REQUIRED", identities |-> idents]
    ELSE LET identity == NewIdentity(publicKey, originSystem, id, metadata)
         IN [threw |-> FALSE, result |-> "IDENTITY",
             identities |-> Put(idents, [id |-> identity.id,
                                         publicKey |-> identity.publicKey,
                                         originSystem |-> identity.originSystem,
                                         metadata |-> identity.metadata,
                                         revoked |-> FALSE])]

\* What registerIdentity does to store.identities.
RegisterOutcome(idents, publicKey, originSystem, id, metadata, force) ==
    IF ~Truthy(publicKey) \/ ~Truthy(originSystem)
    THEN [threw |-> TRUE, result |-> "REQUIRED", identities |-> idents]
    ELSE IF /\ PosByKey(idents, publicKey) # {}
            /\ idents[First(PosByKey(idents, publicKey))].originSystem # originSystem
            /\ ~force
    THEN [threw |-> TRUE, result |-> "ORIGIN_CONFLICT", identities |-> idents]
    ELSE LET identity == NewIdentity(publicKey, originSystem, id, metadata)
         IN [threw |-> FALSE, result |-> "IDENTITY",
             identities |-> Put(idents, [id |-> identity.id,
                                         publicKey |-> identity.publicKey,
                                         originSystem |-> identity.originSystem,
                                         metadata |-> identity.metadata,
                                         revoked |-> FALSE])]

\* registry._saveStore
StoreFileOf(idents, stamps) ==
    [exists |-> TRUE, identities |-> idents, lastActionTimestamps |-> stamps]

\* registry.registerIdentity({publicKey, originSystem, id, metadata, force})
RegisterIdentity(publicKey, originSystem, id, metadata, force) ==
    LET out == RegisterOutcome(identities, publicKey, originSystem, id, metadata, force)
    IN /\ identities' = out.identities
       /\ storeFile' = IF out.threw THEN storeFile
                       ELSE StoreFileOf(out.identities, lastActionTimestamps)
       /\ ret' = [op |-> "registerIdentity", threw |-> out.threw, result |-> out.result]
       /\ UNCHANGED <<lastActionTimestamps, ledgerVars, now, engineVars>>

\* registry.revokeIdentity(id)
RevokeIdentity(id) ==
    LET found == PosById(identities, id) # {}
        next == [k \in 1..Len(identities) |->
                    IF identities[k].id = id
                    THEN [identities[k] EXCEPT !.revoked = TRUE]
                    ELSE identities[k]]
    IN /\ identities' = next
       /\ storeFile' = IF found THEN StoreFileOf(next, lastActionTimestamps)
                       ELSE storeFile
       /\ ret' = [op |-> "revokeIdentity", threw |-> ~found,
                  result |-> IF found THEN "TRUE" ELSE "NOT_FOUND"]
       /\ UNCHANGED <<lastActionTimestamps, ledgerVars, now, engineVars>>

\* new Date(timestamp).getTime(): the instant of an ISO-8601 string or of a
\* number of milliseconds, NaN for anything else.
IsTime(timestamp) == timestamp[1] \in {"iso", "num"}
GetTime(timestamp) == timestamp[2]

\* identity.verifySignature(message, signature); a verify error counts as false.
VerifySignature(publicKey, message, signature) ==
    publicKey \in PublicKeys /\ Verify(message, publicKey, signature)

\* The position of the record validateAction resolves: by agentId when one is
\* given, else by the first record holding publicKey; 0 when there is none.
Resolve(idents, agentId, publicKey) ==
    LET found == IF Truthy(agentId) THEN PosById(idents, agentId)
                 ELSE IF Truthy(publicKey) THEN PosByKey(idents, publicKey)
                 ELSE {}
    IN IF found = {} THEN 0 ELSE First(found)

\* A watermark slip: the timestamp is recorded before the signature is verified.
ValidateOutcomeEagerStamp(idents, stamps, agentId, publicKey, message, signature, timestamp, originSystem) ==
    LET pos == Resolve(idents, agentId, publicKey)
        raw == idents[pos]
        prev == Or(stamps[raw.id], Null)
        stamped == IF Truthy(timestamp)
                   THEN [stamps EXCEPT ![raw.id] = Num(GetTime(timestamp))]
                   ELSE stamps
        reject(reason) == [threw |-> FALSE, valid |-> FALSE, result |-> reason,
                           stamps |-> stamps]
    IN IF ~Truthy(message) \/ ~Truthy(signature)
       THEN [threw |-> TRUE, valid |-> FALSE, result |-> "REQUIRED", stamps |-> stamps]
       ELSE IF pos = 0 THEN reject("IDENTITY_NOT_FOUND")
       ELSE IF raw.revoked THEN reject("IDENTITY_REVOKED")
       ELSE IF Truthy(originSystem) /\ raw.originSystem # originSystem
       THEN reject("ORIGIN_MISMATCH")
       ELSE IF Truthy(timestamp) /\ ~IsTime(timestamp) THEN reject("INVALID_TIMESTAMP")
       ELSE IF Truthy(timestamp) /\ Truthy(prev) /\ GetTime(timestamp) <= prev[2]
       THEN reject("REPLAY_DETECTED")
       ELSE IF ~VerifySignature(raw.publicKey, message, signature)
       THEN [threw |-> FALSE, valid |-> FALSE, result |-> "INVALID_SIGNATURE",
             stamps |-> stamped]
       ELSE [threw |-> FALSE, valid |-> TRUE, result |-> "VALID", stamps |-> stamped]

\* What validateAction returns and the lastActionTimestamps it leaves.
ValidateOutcome(idents, stamps, agentId, publicKey, message, signature, timestamp, originSystem) ==
    LET pos == Resolve(idents, agentId, publicKey)
        raw == idents[pos]
        prev == Or(stamps[raw.id], Null)
        reject(reason) == [threw |-> FALSE, valid |-> FALSE, result |-> reason,
                           stamps |-> stamps]
    IN IF ~Truthy(message) \/ ~Truthy(signature)
       THEN [threw |-> TRUE, valid |-> FALSE, result |-> "REQUIRED", stamps |-> stamps]
       ELSE IF pos = 0 THEN reject("IDENTITY_NOT_FOUND")
       ELSE IF raw.revoked THEN reject("IDENTITY_REVOKED")
       ELSE IF Truthy(originSystem) /\ raw.originSystem # originSystem
       THEN reject("ORIGIN_MISMATCH")
       ELSE IF Truthy(timestamp) /\ ~IsTime(timestamp) THEN reject("INVALID_TIMESTAMP")
       ELSE IF Truthy(timestamp) /\ Truthy(prev) /\ GetTime(timestamp) <= prev[2]
       THEN reject("REPLAY_DETECTED")
       ELSE IF ~VerifySignature(raw.publicKey, message, signature)
       THEN reject("INVALID_SIGNATURE")
       ELSE [threw |-> FALSE, valid |-> TRUE, result |-> "VALID",
             stamps |-> IF Truthy(timestamp)
                        THEN [stamps EXCEPT ![raw.id] = Num(GetTime(timestamp))]
                        ELSE stamps]

\* registry.validateAction({agentId, publicKey, message, signature, timestamp,
\* originSystem})
ValidateAction(agentId, publicKey, message, signature, timestamp, originSystem) ==
    LET out == ValidateOutcome(identities, lastActionTimestamps, agentId, publicKey,
                               message, signature, timestamp, originSystem)
    IN /\ lastActionTimestamps' = out.stamps
       /\ storeFile' = IF out.valid THEN StoreFileOf(identities, out.stamps)
                       ELSE storeFile
       /\ ret' = [op |-> "validateAction", threw |-> out.threw, result |-> out.result]
       /\ UNCHANGED <<identities, ledgerVars, now, engineVars>>

\* What migrateIdentity does to store.identities, for a migration function that
\* sets originSystem to newOrigin (or leaves the record as it is, when Null).
MigrateOutcome(idents, id, newOrigin) ==
    LET pos == IF PosById(idents, id) = {} THEN 0 ELSE First(PosById(idents, id))
        before == idents[pos]
        identity == NewIdentity(before.publicKey, Or(newOrigin, before.originSystem),
                                before.id, before.metadata)
        upgraded == Upgrade(identity)
    IN IF pos = 0
       THEN [threw |-> TRUE, result |-> "NOT_FOUND", identities |-> idents]
       ELSE IF UpgradeThrows(identity)
       THEN [threw |-> TRUE, result |-> "TypeError", identities |-> idents]
       ELSE [threw |-> FALSE, result |-> "IDENTITY",
             identities |-> Put(idents, [id |-> upgraded.id,
                                         publicKey |-> upgraded.publicKey,
                                         originSystem |-> upgraded.originSystem,
                                         metadata |-> upgraded.metadata,
                                         revoked |-> before.revoked])]

\* registry.migrateIdentity(id, migrationFn, details)
MigrateIdentity(id, newOrigin) ==
    LET out == MigrateOutcome(identities, id, newOrigin)
    IN /\ \A k \in 1..Len(out.identities) :
              IdentityVersion(out.identities[k].metadata) = Undefined
              \/ IdentityVersion(out.identities[k].metadata)[2] <= MaxPatch
       /\ identities' = out.identities
       /\ storeFile' = IF out.threw THEN storeFile
                       ELSE StoreFileOf(out.identities, lastActionTimestamps)
       /\ ret' = [op |-> "migrateIdentity", threw |-> out.threw, result |-> out.result]
       /\ UNCHANGED <<lastActionTimestamps, ledgerVars, now, engineVars>>

(***************************************************************************)
(* AdaptiveGovernanceEngine.  Scores, metrics and tolerances are numbers    *)
(* with four decimals, held as integers in units of 1/Scale; amounts of     *)
(* money and counts are plain integers.                                     *)
(***************************************************************************)
Scale == 10000

\* AdaptiveGovernanceEngine.CONFIG.THRESHOLDS
THRESHOLDS == [ELITE |-> 9000, HIGH |-> 7000, STANDARD |-> 4000, RESTRICTED |-> 2000]

\* A configuration slip: RESTRICTED is given a larger single transaction limit
\* than STANDARD_OPERATIONAL, and WRITE in place of EXECUTE.
LEVELS_RestrictedRaised ==
    [ELITE_AUTHORITY |->
        [label |-> "Elite Authority",
         delegation |-> [maxSubAgents |-> 50, scope |-> "UNRESTRICTED",
                         canDelegateToLowerTrust |-> TRUE,
                         autoApprovalThreshold |-> 8500],
         permissions |-> <<"READ", "WRITE", "EXECUTE", "COMMIT", "GOVERN", "ADMIN", "SUDO">>,
         budget |-> [ceiling |-> 1000000, dailyLimit |-> 50000, currency |-> "USD",
                     singleTransactionLimit |-> 10000],
         validationStrictness |-> "LAX"],
     HIGH_TRUST |->
        [label |-> "High Trust",
         delegation |-> [maxSubAgents |-> 20, scope |-> "CROSS_DOMAIN",
                         canDelegateToLowerTrust |-> TRUE,
                         autoApprovalThreshold |-> 9000],
         permissions |-> <<"READ", "WRITE", "EXECUTE", "COMMIT", "GOVERN">>,
         budget |-> [ceiling |-> 100000, dailyLimit |-> 10000, currency |-> "USD",
                     singleTransactionLimit |-> 2500],
         validationStrictness |-> "STANDARD"],
     STANDARD_OPERATIONAL |->
        [label |-> "Standard Operational",
         delegation |-> [maxSubAgents |-> 5, scope |-> "DOMAIN_SPECIFIC",
                         canDelegateToLowerTrust |-> FALSE,
                         autoApprovalThreshold |-> 9500],
         permissions |-> <<"READ", "WRITE", "EXECUTE">>,
         budget |-> [ceiling |-> 10000, dailyLimit |-> 1000, currency |-> "USD",
                     singleTransactionLimit |-> 500],
         validationStrictness |-> "STRICT"],
     RESTRICTED |->
        [label |-> "Restricted",
         delegation |-> [maxSubAgents |-> 1, scope |-> "SUPERVISED_ONLY",
                         canDelegateToLowerTrust |-> FALSE,
                         autoApprovalThreshold |-> 10000],
         permissions |-> <<"READ", "WRITE">>,
         budget |-> [ceiling |-> 1000, dailyLimit |-> 100, currency |-> "USD",
                     singleTransactionLimit |-> 1000],
         validationStrictness |-> "HIGH_FRICTION"],
     PROBATIONARY |->
        [label |-> "Probationary",
         delegation |-> [maxSubAgents |-> 0, scope |-> "NONE",
                         canDelegateToLowerTrust |-> FALSE,
                         autoApprovalThreshold |-> 10000],
         permissions |-> <<"READ">>,
         budget |-> [ceiling |-> 0, dailyLimit |-> 0, currency |-> "USD",
                     singleTransactionLimit |-> 0],
         validationStrictness |-> "MANDATORY_HUMAN_IN_THE_LOOP"]]

\* AdaptiveGovernanceEngine.CONFIG.LEVELS
LEVELS ==
    [ELITE_AUTHORITY |->
        [label |-> "Elite Authority",
         delegation |-> [maxSubAgents |-> 50, scope |-> "UNRESTRICTED",
                         canDelegateToLowerTrust |-> TRUE,
                         autoApprovalThreshold |-> 8500],
         permissions |-> <<"READ", "WRITE", "EXECUTE", "COMMIT", "GOVERN", "ADMIN", "SUDO">>,
         budget |-> [ceiling |-> 1000000, dailyLimit |-> 50000, currency |-> "USD",
                     singleTransactionLimit |-> 10000],
         validationStrictness |-> "LAX"],
     HIGH_TRUST |->
        [label |-> "High Trust",
         delegation |-> [maxSubAgents |-> 20, scope |-> "CROSS_DOMAIN",
                         canDelegateToLowerTrust |-> TRUE,
                         autoApprovalThreshold |-> 9000],
         permissions |-> <<"READ", "WRITE", "EXECUTE", "COMMIT", "GOVERN">>,
         budget |-> [ceiling |-> 100000, dailyLimit |-> 10000, currency |-> "USD",
                     singleTransactionLimit |-> 2500],
         validationStrictness |-> "STANDARD"],
     STANDARD_OPERATIONAL |->
        [label |-> "Standard Operational",
         delegation |-> [maxSubAgents |-> 5, scope |-> "DOMAIN_SPECIFIC",
                         canDelegateToLowerTrust |-> FALSE,
                         autoApprovalThreshold |-> 9500],
         permissions |-> <<"READ", "WRITE", "EXECUTE">>,
         budget |-> [ceiling |-> 10000, dailyLimit |-> 1000, currency |-> "USD",
                     singleTransactionLimit |-> 500],
         validationStrictness |-> "STRICT"],
     RESTRICTED |->
        [label |-> "Restricted",
         delegation |-> [maxSubAgents |-> 1, scope |-> "SUPERVISED_ONLY",
                         canDelegateToLowerTrust |-> FALSE,
                         autoApprovalThreshold |-> 10000],
         permissions |-> <<"READ", "EXECUTE">>,
         budget |-> [ceiling |-> 1000, dailyLimit |-> 100, currency |-> "USD",
                     singleTransactionLimit |-> 100],
         validationStrictness |-> "HIGH_FRICTION"],
     PROBATIONARY |->
        [label |-> "Probationary",
         delegation |-> [maxSubAgents |-> 0, scope |-> "NONE",
                         canDelegateToLowerTrust |-> FALSE,
                         autoApprovalThreshold |-> 10000],
         permissions |-> <<"READ">>,
         budget |-> [ceiling |-> 0, dailyLimit |-> 0, currency |-> "USD",
                     singleTransactionLimit |-> 0],
         validationStrictness |-> "MANDATORY_HUMAN_IN_THE_LOOP"]]

\* A comparison slip: the thresholds are exclusive lower bounds.
ProfileForExclusive(score, t) ==
    LET level == IF score > THRESHOLDS.ELITE THEN "ELITE_AUTHORITY"
                 ELSE IF score > THRESHOLDS.HIGH THEN "HIGH_TRUST"
                 ELSE IF score > THRESHOLDS.STANDARD THEN "STANDARD_OPERATIONAL"
                 ELSE IF score > THRESHOLDS.RESTRICTED THEN "RESTRICTED"
                 ELSE "PROBATIONARY"
        config == LEVELS[level]
    IN [level |-> level, label |-> config.label, delegation |-> config.delegation,
        permissions |-> config.permissions, budget |-> config.budget,
        validationStrictness |-> config.validationStrictness,
        appliedAt |-> Iso(t), trustScoreSnapshot |-> score]

\* The profile AdaptiveGovernanceEngine.getGovernanceProfile(score) returns at
\* instant t, without an agent context: the copy of the level's configuration
\* (numbers, strings, booleans and arrays, which JSON carries over unchanged)
\* spread into an object with level, appliedAt and trustScoreSnapshot.
ProfileFor(score, t) ==
    LET level == IF score >= THRESHOLDS.ELITE THEN "ELITE_AUTHORITY"
                 ELSE IF score >= THRESHOLDS.HIGH THEN "HIGH_TRUST"
                 ELSE IF score >= THRESHOLDS.STANDARD THEN "STANDARD_OPERATIONAL"
                 ELSE IF score >= THRESHOLDS.RESTRICTED THEN "RESTRICTED"
                 ELSE "PROBATIONARY"
        config == LEVELS[level]
    IN [level |-> level, label |-> config.label, delegation |-> config.delegation,
        permissions |-> config.permissions, budget |-> config.budget,
        validationStrictness |-> config.validationStrictness,
        appliedAt |-> Iso(t), trustScoreSnapshot |-> score]

\* agent.getGovernanceProfile(), for the agent whose trust score is trustScore
GetGovernanceProfile ==
    \E t \in Clock :
        /\ Len(calls) < MaxCalls
        /\ calls' = Append(calls, ProfileFor(trustScore, t))
        /\ now' = t
        /\ ret' = [op |-> "getGovernanceProfile", threw |-> FALSE, result |-> "PROFILE"]
        /\ UNCHANGED <<ledgerVars, registryVars, metrics, history, trustScore, proposal>>

(***************************************************************************)
(* PreExecutionValidator.  A proposal is a record of impactScore, riskScore *)
(* (units of 1/Scale), cost, confirmations (plain numbers), policyTags (an  *)
(* array of strings) and humanApproved; a property the caller leaves out is *)
(* undefined.  A check result is {passed, reason}, the reason reduced to a  *)
(* code.                                                                    *)
(***************************************************************************)
Arr(seq) == <<"array", seq>>

\* A configuration slip: HIGH_FRICTION tolerates more risk than STRICT.
STRICTNESS_LEVELS_Slack ==
    [LAX |-> [riskTolerance |-> 9000, economicSafetyMargin |-> 10500,
              policyCheckIntensity |-> 1000, consensusRequired |-> FALSE,
              requiresHumanApproval |-> FALSE, minConfirmations |-> 0],
     STANDARD |-> [riskTolerance |-> 6000, economicSafetyMargin |-> 10000,
                   policyCheckIntensity |-> 5000, consensusRequired |-> FALSE,
                   requiresHumanApproval |-> FALSE, minConfirmations |-> 0],
     STRICT |-> [riskTolerance |-> 3000, economicSafetyMargin |-> 8500,
                 policyCheckIntensity |-> 8000, consensusRequired |-> TRUE,
                 requiresHumanApproval |-> FALSE, minConfirmations |-> 1],
     HIGH_FRICTION |-> [riskTolerance |-> 6000, economicSafetyMargin |-> 7000,
                        policyCheckIntensity |-> 10000, consensusRequired |-> TRUE,
                        requiresHumanApproval |-> FALSE, minConfirmations |-> 3],
     MANDATORY_HUMAN_IN_THE_LOOP |->
        [riskTolerance |-> 0, economicSafetyMargin |-> 5000,
         policyCheckIntensity |-> 10000, consensusRequired |-> TRUE,
         requiresHumanApproval |-> TRUE, minConfirmations |-> 5]]

\* PreExecutionValidator.STRICTNESS_LEVELS; requiresHumanApproval is undefined,
\* hence falsy, in the levels that do not set it.
STRICTNESS_LEVELS ==
    [LAX |-> [riskTolerance |-> 9000, economicSafetyMargin |-> 10500,
              policyCheckIntensity |-> 1000, consensusRequired |-> FALSE,
              requiresHumanApproval |-> FALSE, minConfirmations |-> 0],
     STANDARD |-> [riskTolerance |-> 6000, economicSafetyMargin |-> 10000,
                   policyCheckIntensity |-> 5000, consensusRequired |-> FALSE,
                   requiresHumanApproval |-> FALSE, minConfirmations |-> 0],
     STRICT |-> [riskTolerance |-> 3000, economicSafetyMargin |-> 8500,
                 policyCheckIntensity |-> 8000, consensusRequired |-> TRUE,
                 requiresHumanApproval |-> FALSE, minConfirmations |-> 1],
     HIGH_FRICTION |-> [riskTolerance |-> 1000, economicSafetyMargin |-> 7000,
                        policyCheckIntensity |-> 10000, consensusRequired |-> TRUE,
                        requiresHumanApproval |-> FALSE, minConfirmations |-> 3],
     MANDATORY_HUMAN_IN_THE_LOOP |->
        [riskTolerance |-> 0, economicSafetyMargin |-> 5000,
         policyCheckIntensity |-> 10000, consensusRequired |-> TRUE,
         requiresHumanApproval |-> TRUE, minConfirmations |-> 5]]

Passed == [passed |-> TRUE, reason |-> "NONE"]
Failed(reason) == [passed |-> FALSE, reason |-> reason]

\* v > n for a JavaScript value v: false when v is undefined (NaN).
Greater(v, n) == v[1] = "num" /\ v[2] > n

\* policyTags.includes(tag)
Includes(policyTags, tag) == \E k \in 1..Len(policyTags) : policyTags[k] = tag

\* PreExecutionValidator._validateRisk
ValidateRisk(prop, config) ==
    LET adjustedRisk == Or(prop.riskScore, Num(0))
    IN IF Greater(adjustedRisk, config.riskTolerance)
       THEN Failed("RISK_EXCEEDS_TOLERANCE")
       ELSE Passed

\* An economics slip: the cost is held against the budget ceiling.
ValidateEconomicsCeiling(prop, config, profile) ==
    IF ~Truthy(prop.cost) THEN Passed
    ELSE IF prop.cost[2] * Scale > profile.budget.ceiling * config.economicSafetyMargin
    THEN Failed("COST_EXCEEDS_THRESHOLD")
    ELSE Passed

\* PreExecutionValidator._validateEconomics: cost > singleTransactionLimit * margin
ValidateEconomics(prop, config, profile) ==
    IF ~Truthy(prop.cost) THEN Passed
    ELSE IF prop.cost[2] * Scale
                > profile.budget.singleTransactionLimit * config.economicSafetyMargin
    THEN Failed("COST_EXCEEDS_THRESHOLD")
    ELSE Passed

\* PreExecutionValidator._validatePolicies
ValidatePolicies(prop, config) ==
    LET intensity == config.policyCheckIntensity
        policyTags == Or(prop.policyTags, Arr(<<>>))[2]
    IN IF /\ intensity > 4000
          /\ Includes(policyTags, "HIGH_PRIVILEGE")
          /\ Greater(prop.impactScore, 7000)
       THEN Failed("PRIVILEGED_IMPACT")
       ELSE IF intensity > 7000 /\ Includes(policyTags, "INFRASTRUCTURE")
       THEN Failed("INFRASTRUCTURE_PROHIBITED")
       ELSE IF intensity > 7000 /\ Len(policyTags) > 3
       THEN Failed("EXCESSIVE_POLICY_COMPLEXITY")
       ELSE IF intensity > 9000 /\ Includes(policyTags, "SENSITIVE_DATA")
       THEN Failed("SENSITIVE_DATA_PROHIBITED")
       ELSE Passed

\* A consensus slip: the human approval is never asked for.
ValidateConsensusUnattended(prop, config, score) ==
    LET impact == Or(prop.impactScore, Num(0))[2]
        requiresConsensus == config.consensusRequired \/ (10 * impact > 8 * score)
        currentConfirmations == Or(prop.confirmations, Num(0))[2]
        floor == IF impact > 7000 THEN 2 ELSE 0
        minNeeded == IF config.minConfirmations > floor
                     THEN config.minConfirmations ELSE floor
    IN IF requiresConsensus /\ currentConfirmations < minNeeded
       THEN Failed("CONFIRMATIONS_REQUIRED")
       ELSE Passed

\* PreExecutionValidator._validateConsensus; impact > trustScore * 0.8
ValidateConsensus(prop, config, score) ==
    LET impact == Or(prop.impactScore, Num(0))[2]
        requiresConsensus == config.consensusRequired \/ (10 * impact > 8 * score)
        currentConfirmations == Or(prop.confirmations, Num(0))[2]
        floor == IF impact > 7000 THEN 2 ELSE 0
        minNeeded == IF config.minConfirmations > floor
                     THEN config.minConfirmations ELSE floor
    IN IF requiresConsensus /\ currentConfirmations < minNeeded
       THEN Failed("CONFIRMATIONS_REQUIRED")
       ELSE IF /\ requiresConsensus
               /\ config.requiresHumanApproval
               /\ ~Truthy(prop.humanApproved)
       THEN Failed("HUMAN_APPROVAL_REQUIRED")
       ELSE Passed

\* The names of the checks, in the order of the results object.
CheckNames == <<"riskCheck", "economicCheck", "policyCheck", "consensusCheck">>

\* A reporting slip: only the first failed check is named in the reason.
ValidationFirstFailure(score, prop, t) ==
    LET profile == ProfileFor(score, t)
        strictness == profile.validationStrictness
        config == STRICTNESS_LEVELS[strictness]
        results == [riskCheck |-> ValidateRisk(prop, config),
                    economicCheck |-> ValidateEconomics(prop, config, profile),
                    policyCheck |-> ValidatePolicies(prop, config),
                    consensusCheck |-> ValidateConsensus(prop, config, score)]
        failed == SelectSeq(CheckNames, LAMBDA name : ~results[name].passed)
        failedChecks == [k \in 1..Len(failed) |-> <<failed[k], results[failed[k]].reason>>]
        isAllowed == Len(failedChecks) = 0
    IN [allowed |-> isAllowed,
        strictnessLevel |-> strictness,
        validationResults |-> results,
        reason |-> [head |-> IF isAllowed THEN "VALIDATION_PASSED" ELSE "VALIDATION_FAILED",
                    failedChecks |-> IF isAllowed THEN <<>> ELSE <<failedChecks[1]>>]]

\* What PreExecutionValidator.validate(agent, proposal) returns at instant t for
\* an agent of trust score `score`; the reason is its head and the failed checks
\* it lists.
Validation(score, prop, t) ==
    LET profile == ProfileFor(score, t)
        strictness == profile.validationStrictness
        config == STRICTNESS_LEVELS[strictness]
        results == [riskCheck |-> ValidateRisk(prop, config),
                    economicCheck |-> ValidateEconomics(prop, config, profile),
                    policyCheck |-> ValidatePolicies(prop, config),
                    consensusCheck |-> ValidateConsensus(prop, config, score)]
        failed == SelectSeq(CheckNames, LAMBDA name : ~results[name].passed)
        failedChecks == [k \in 1..Len(failed) |-> <<failed[k], results[failed[k]].reason>>]
        isAllowed == Len(failedChecks) = 0
    IN [allowed |-> isAllowed,
        strictnessLevel |-> strictness,
        validationResults |-> results,
        reason |-> [head |-> IF isAllowed THEN "VALIDATION_PASSED" ELSE "VALIDATION_FAILED",
                    failedChecks |-> failedChecks]]

\* PreExecutionValidator.validate(agent, proposal)
Validate ==
    \E t \in Clock :
        /\ calls = <<>>
        /\ calls' = <<Validation(trustScore, proposal, t)>>
        /\ now' = t
        /\ ret' = [op |-> "validate", threw |-> FALSE, result |-> "VALIDATION"]
        /\ UNCHANGED <<ledgerVars, registryVars, metrics, history, trustScore, proposal>>

(***************************************************************************)
(* TrustScoringEngine.  A performance snapshot is a record of its metrics,  *)
(* each a number in units of 1/Scale or undefined when the snapshot lacks   *)
(* it; a history entry is a record of the riskExposure it carries.          *)
(***************************************************************************)
MetricNames ==
    {"reliability", "uptime", "consistency", "roi", "budgetEfficiency",
     "cooperationScore", "informationSharingScore", "policyViolations",
     "complianceHistory", "riskExposure", "taskSuccessRate", "taskComplexityScore"}

\* parseFloat((n / d).toFixed(4)) for the number n / d units: the nearest unit.
Round(n, d) == (2 * n + d) \div (2 * d)

Min(a, b) == IF a < b THEN a ELSE b
Max(a, b) == IF a > b THEN a ELSE b

\* TrustScoringEngine._calculateReliability
CalculateReliability(m, h) ==
    LET current == Or(m.reliability, Num(5000))
        uptime == Or(m.uptime, Num(Scale))
        consistency == Or(m.consistency, current)
    IN Round(6 * uptime[2] + 4 * consistency[2], 10)

\* TrustScoringEngine._calculateEfficiency; roi is clamp(m.roi / 100, 0, 1)
CalculateEfficiency(m, h) ==
    LET roi == Min(Max(Or(m.roi, Num(0))[2], 0), 100 * Scale)
        budgetAdherence == Or(m.budgetEfficiency, Num(Scale))
    IN Round(3 * roi + 700 * budgetAdherence[2], 1000)

\* TrustScoringEngine._calculateCooperation
CalculateCooperation(m, h) ==
    LET synergy == Or(m.cooperationScore, Num(Scale))
        sharing == Or(m.informationSharingScore, synergy)
    IN Round(7 * synergy[2] + 3 * sharing[2], 10)

\* A penalty slip: every violation costs 0.3 of the compliance, not 0.2.
CalculateComplianceSteep(m, h) ==
    LET violations == Or(m.policyViolations, Num(0))
        historyCompliance == Or(m.complianceHistory, Num(Scale))
        violationPenalty == Max(0, 10 * Scale - 3 * violations[2])
    IN Round(8 * violationPenalty + 20 * historyCompliance[2], 100)

\* TrustScoringEngine._calculateCompliance; the penalty is taken ten times over
CalculateCompliance(m, h) ==
    LET violations == Or(m.policyViolations, Num(0))
        historyCompliance == Or(m.complianceHistory, Num(Scale))
        violationPenalty == Max(0, 10 * Scale - 2 * violations[2])
    IN Round(8 * violationPenalty + 20 * historyCompliance[2], 100)

\* TrustScoringEngine._calculateRiskSafety
CalculateRiskSafety(m, h) ==
    LET exposure == Or(m.riskExposure, Num(1000))
        safety == Scale - exposure[2]
        prevRisk == IF Len(h) > 0 THEN Or(h[Len(h)].riskExposure, exposure) ELSE exposure
        stabilityFactor == IF Len(h) > 0 /\ exposure[2] > prevRisk[2] THEN 9 ELSE 10
    IN Round(safety * stabilityFactor, 10)

\* TrustScoringEngine._calculateCompetence
CalculateCompetence(m, h) ==
    LET successRate == Or(m.taskSuccessRate, Num(Scale))
        complexityHandled == Or(m.taskComplexityScore, Num(5000))
    IN Round(8 * successRate[2] + 2 * complexityHandled[2], 10)

\* TrustScoringEngine._projectContexts
ProjectContexts(d) ==
    [financial |-> Round(6 * d.efficiency + 3 * d.riskSafety + d.compliance, 10),
     collaborative |-> Round(7 * d.cooperation + 2 * d.reliability + d.competence, 10),
     compliance |-> Round(7 * d.compliance + 2 * d.riskSafety + d.reliability, 10),
     technical |-> Round(6 * d.competence + 3 * d.efficiency + d.reliability, 10),
     security |-> Round(5 * d.compliance + 4 * d.riskSafety + d.reliability, 10)]

\* TrustScoringEngine._calculateComposite, a hundred times over
CalculateComposite(d) ==
    15 * d.reliability + 15 * d.efficiency + 20 * d.cooperation
        + 20 * d.compliance + 15 * d.riskSafety + 15 * d.competence

\* What TrustScoringEngine.calculateScore(metrics, history) returns at instant t.
ScoreOf(m, h, t) ==
    LET dimensions == [reliability |-> CalculateReliability(m, h),
                       efficiency |-> CalculateEfficiency(m, h),
                       cooperation |-> CalculateCooperation(m, h),
                       compliance |-> CalculateCompliance(m, h),
                       riskSafety |-> CalculateRiskSafety(m, h),
                       competence |-> CalculateCompetence(m, h)]
    IN [composite |-> Round(CalculateComposite(dimensions), 100),
        dimensions |-> dimensions,
        contexts |-> ProjectContexts(dimensions),
        timestamp |-> Iso(t),
        metadata |-> [dataPoints |-> Len(h) + 1, engineVersion |-> "2.0.0"]]

\* TrustScoringEngine.calculateScore(metrics, history): it assigns to neither.
CalculateScore ==
    \E t \in Clock :
        /\ Len(calls) < MaxCalls
        /\ calls' = Append(calls, ScoreOf(metrics, history, t))
        /\ now' = t
        /\ ret' = [op |-> "calculateScore", threw |-> FALSE, result |-> "PROFILE"]
        /\ UNCHANGED <<ledgerVars, registryVars, metrics, history, trustScore, proposal>>

(***************************************************************************)
(* The agent that proposes.  Its performance carries the metrics, the trust *)
(* profile TrustScoringEngine computed from them and the version history,   *)
(* and trustScore, the composite of that profile.                           *)
(***************************************************************************)
ContextNames == {"financial", "collaborative", "compliance", "technical", "security"}

\* agent.performance.trustProfile
TrustProfile == ScoreOf(metrics, history, 0)

\* agent.getTrustScore(context): the projection of a context the profile holds,
\* the composite otherwise.
GetTrustScore(context) ==
    IF Truthy(context) /\ context[2] \in DOMAIN TrustProfile.contexts
    THEN TrustProfile.contexts[context[2]]
    ELSE trustScore

\* agent.getGovernanceProfile(context)
GetGovernanceProfileIn(context) ==
    \E t \in Clock :
        LET profile == ProfileFor(GetTrustScore(context), t)
        IN /\ Len(calls) < MaxCalls
           /\ calls' = Append(calls, IF Truthy(context)
                                     THEN [reputationContext |-> context] @@ profile
                                     ELSE profile)
           /\ now' = t
           /\ ret' = [op |-> "getGovernanceProfile", threw |-> FALSE,
                      result |-> "PROFILE", context |-> context]
           /\ UNCHANGED <<ledgerVars, registryVars, metrics, history, trustScore, proposal>>

\* PreExecutionValidator.validate(agent, proposal, context): validate declares
\* two parameters, the third argument is not read.
ValidateIn(context) ==
    \E t \in Clock :
        /\ Len(calls) < MaxCalls
        /\ calls' = Append(calls, Validation(trustScore, proposal, t))
        /\ now' = t
        /\ ret' = [op |-> "validate", threw |-> FALSE, result |-> "VALIDATION",
                   context |-> context]
        /\ UNCHANGED <<ledgerVars, registryVars, metrics, history, trustScore, proposal>>

(***************************************************************************)
(* ReputationEvolutionEngine.  Instants are hours since the epoch; a        *)
(* performance carries lastUpdated next to its metrics; a recent action is  *)
(* the record of its details: success, cooperationScore and quality.        *)
(***************************************************************************)
NaN == <<"nan">>
IsNum(v) == v[1] = "num"

\* CONFIG.DECAY_GRACE_PERIOD_HOURS
DecayGracePeriodHours == 18

\* CONFIG.MIN_METRIC_FLOOR and the cap of riskExposure under decay
MinMetricFloor == 1500
DecayRiskCap == 4000

\* Math.pow(1 - CONFIG.DECAY_RATE_DAILY, hours / 24) to five decimals, for the
\* elapsed times of the specifications.
DecayFactor(hours) ==
    IF hours = 17 THEN 98935
    ELSE IF hours = 18 THEN 98873
    ELSE IF hours = 19 THEN 98811
    ELSE IF hours = 24 THEN 98500
    ELSE IF hours = 240 THEN 85973
    ELSE 100000

DecayableMetrics ==
    {"reliability", "cooperationScore", "consistency", "taskSuccessRate",
     "complianceHistory"}

\* parseFloat(Math.max(floor, v * decayFactor).toFixed(4)) of a metric v
Decayed(v, hours) ==
    IF v = Undefined THEN Undefined
    ELSE IF ~IsNum(v) THEN NaN
    ELSE Num(Max(MinMetricFloor, Round(v[2] * DecayFactor(hours), 100000)))

\* ReputationEvolutionEngine._applyTemporalDecay(performance, hours / 24)
ApplyTemporalDecay(p, hours) ==
    [name \in DOMAIN p |->
        IF name \in DecayableMetrics THEN Decayed(p[name], hours)
        ELSE IF name = "riskExposure" /\ p[name] # Undefined
        THEN IF IsNum(p[name])
             THEN Num(Min(DecayRiskCap, Round(24 * p[name][2] + 50 * hours, 24)))
             ELSE NaN
        ELSE p[name]]

\* The sum of a sequence of numbers.
RECURSIVE Sum(_)
Sum(seq) == IF seq = <<>> THEN 0 ELSE seq[1] + Sum(Tail(seq))

\* ReputationEvolutionEngine._aggregateActionMetrics: every metric as the pair
\* of a numerator in units and a denominator.
AggregateActionMetrics(actions) ==
    LET n == Len(actions)
        succ(d) == IF Truthy(d.success) THEN 1 ELSE 0
        coop(d) == IF d.cooperationScore # Undefined THEN d.cooperationScore[2]
                   ELSE IF Truthy(d.success) THEN 9000 ELSE 5000
        qual(d) == IF d.quality # Undefined THEN d.quality[2]
                   ELSE IF Truthy(d.success) THEN 9500 ELSE 2000
    IN [successRate |-> <<Scale * Sum([k \in 1..n |-> succ(actions[k])]), n>>,
        reliability |-> <<Scale * Min(3, n), 3>>,
        cooperation |-> <<Sum([k \in 1..n |-> coop(actions[k])]), n>>,
        avgQuality |-> <<Sum([k \in 1..n |-> qual(actions[k])]), n>>]

\* parseFloat(blend(oldVal, newVal).toFixed(4)): the weight of the new value is
\* RECENCY_WEIGHT, times IMPACT_VOLATILITY when the new value is the lower one.
Blend(oldVal, newVal) ==
    IF ~IsNum(oldVal) THEN NaN
    ELSE LET weight == IF newVal[1] < oldVal[2] * newVal[2] THEN 78 ELSE 65
         IN Num(Round(oldVal[2] * (100 - weight) * newVal[2] + newVal[1] * weight,
                      100 * newVal[2]))

\* ReputationEvolutionEngine._processActivityImpact(performance, actions)
ProcessActivityImpact(p, actions) ==
    LET am == AggregateActionMetrics(actions)
        q == am.avgQuality
        blended == [p EXCEPT !.reliability = Blend(@, am.reliability),
                             !.taskSuccessRate = Blend(@, am.successRate),
                             !.cooperationScore = Blend(@, am.cooperation)]
    IN IF q[1] >= 8500 * q[2]
       THEN [blended EXCEPT
                !.consistency =
                    IF IsNum(@)
                    THEN Num(Min(Scale, Round(10 * q[2] * @[2] + q[1] - 5000 * q[2],
                                              10 * q[2])))
                    ELSE NaN,
                !.complianceHistory =
                    IF IsNum(@) /\ @[2] < Scale THEN Num(Min(Scale, @[2] + 200)) ELSE @,
                !.riskExposure = IF IsNum(@) THEN Num(Max(100, @[2] - 100)) ELSE NaN]
       ELSE IF q[1] < 4000 * q[2]
       THEN [blended EXCEPT
                !.consistency = IF IsNum(@) THEN Num(Max(1000, @[2] - 1000)) ELSE NaN]
       ELSE blended

\* A grace slip: the decay sets in with the first hour, there is no grace period.
EvolvedWithoutGrace(p, recentActions, t) ==
    LET elapsed == IF Truthy(p.lastUpdated) THEN t - p.lastUpdated[2] ELSE 0
        decayed == IF elapsed > 0
                   THEN ApplyTemporalDecay(p, elapsed) ELSE p
        impacted == IF Len(recentActions) > 0
                    THEN ProcessActivityImpact(decayed, recentActions) ELSE decayed
    IN [impacted EXCEPT !.lastUpdated = Iso(t)]

\* What ReputationEvolutionEngine.evolve(currentPerformance, recentActions)
\* returns at instant t.
Evolved(p, recentActions, t) ==
    LET elapsed == IF Truthy(p.lastUpdated) THEN t - p.lastUpdated[2] ELSE 0
        decayed == IF elapsed > DecayGracePeriodHours
                   THEN ApplyTemporalDecay(p, elapsed) ELSE p
        impacted == IF Len(recentActions) > 0
                    THEN ProcessActivityImpact(decayed, recentActions) ELSE decayed
    IN [impacted EXCEPT !.lastUpdated = Iso(t)]

\* The instants of the evolutions: the epoch, the last hour of the grace period,
\* its end, an hour later, a day and ten days.
Hours == {0, 17, 18, 19, 24, 240}

\* ReputationEvolutionEngine.evolve(performance, recentActions): it assigns to
\* neither argument.
Evolve(recentActions) ==
    \E t \in Hours :
        /\ Len(calls) < MaxCalls
        /\ calls' = Append(calls, Evolved(metrics, recentActions, t))
        /\ now' = t
        /\ ret' = [op |-> "evolve", threw |-> FALSE, result |-> "PERFORMANCE",
                   recentActions |-> recentActions]
        /\ UNCHANGED <<ledgerVars, registryVars, metrics, history, trustScore, proposal>>

(***************************************************************************)
(* The performance of an identity.  metrics is the performance the identity *)
(* carries (its metrics and lastUpdated), history the versionHistory of its *)
(* metadata, whose entries carry no riskExposure, and trustScore the        *)
(* composite of the trust profile computed last.                            *)
(***************************************************************************)
VersionEntry == [riskExposure |-> Undefined]

\* {...this.performance, ...updates, lastUpdated: new Date().toISOString()}
Merged(p, updates, t) ==
    [name \in DOMAIN p |->
        IF name = "lastUpdated" THEN Iso(t)
        ELSE IF name \in DOMAIN updates THEN updates[name]
        ELSE p[name]]

\* The trust profile identity.updatePerformance(updates, reason) computes: the
\* history it hands to calculateScore is metadata.versionHistory.
UpdatedProfile(p, h, updates, t) == ScoreOf(Merged(p, updates, t), h, t)

\* agent = agent.updatePerformance(updates, reason): the identity it returns
\* carries the merged performance and one version history entry more.
UpdatePerformance(updates) ==
    \E t \in Clock :
        LET profile == UpdatedProfile(metrics, history, updates, t)
        IN /\ Len(calls) < MaxCalls
           /\ metrics' = Merged(metrics, updates, t)
           /\ trustScore' = profile.composite
           /\ history' = Append(history, VersionEntry)
           /\ calls' = Append(calls, profile)
           /\ now' = t
           /\ ret' = [op |-> "updatePerformance", threw |-> FALSE,
                      result |-> "IDENTITY", recentActions |-> <<>>]
           /\ UNCHANGED <<ledgerVars, registryVars, proposal>>

\* api.updateReputation(agentId, recentActions): updatePerformance declares two
\* parameters, recentActions is not read; migrateIdentity upgrades the updated
\* identity once more and stores it; the updated performance is returned.
UpdateReputation(recentActions) ==
    \E t \in Clock :
        LET profile == UpdatedProfile(metrics, history, <<>>, t)
        IN /\ Len(calls) < MaxCalls
           /\ metrics' = Merged(metrics, <<>>, t)
           /\ trustScore' = profile.composite
           /\ history' = history \o <<VersionEntry, VersionEntry>>
           /\ calls' = Append(calls, metrics')
           /\ now' = t
           /\ ret' = [op |-> "updateReputation", threw |-> FALSE,
                      result |-> "PERFORMANCE", recentActions |-> recentActions]
           /\ UNCHANGED <<ledgerVars, registryVars, proposal>>

(***************************************************************************)
(* IdentityReputationAPI.recordAction, and the calls whose write to the     *)
(* file fails: fs.writeFileSync throws (EACCES, ENOSPC), the file keeps its *)
(* content and the error leaves the call.                                   *)
(***************************************************************************)
ReputationActions ==
    {Str("ECONOMIC_OUTCOME"), Str("COOPERATIVE_COLLABORATION"), Str("POLICY_VIOLATION")}

\* What the reputation update of recordAction does to store.identities: the
\* identity is upgraded by updatePerformance and once more by migrateIdentity.
ReputationOutcome(idents, id) ==
    LET pos == IF PosById(idents, id) = {} THEN 0 ELSE First(PosById(idents, id))
        before == idents[pos]
    IN IF pos = 0
       THEN [threw |-> TRUE, result |-> "NOT_FOUND", identities |-> idents]
       ELSE IF UpgradeThrows(before)
       THEN [threw |-> TRUE, result |-> "TypeError", identities |-> idents]
       ELSE [threw |-> FALSE, result |-> "ENTRY",
             identities |-> Put(idents, Upgrade(Upgrade(before)))]

\* What recordAction does to the ledger, its file, the store and its file, on a
\* disk where the ledger file and the store file can or cannot be written.
RecordOutcome(t, agentId, publicKey, privateKey, actionType, details, ledgerWritable, storeWritable) ==
    LET added == AddEntryOutcome(entries, t, agentId, publicKey, privateKey,
                                 actionType, details)
        rep == ReputationOutcome(identities, agentId)
        state(es, file, idents, store, threw, result) ==
            [entries |-> es, ledgerFile |-> file, identities |-> idents,
             storeFile |-> store, threw |-> threw, result |-> result]
    IN IF added.threw
       THEN state(entries, ledgerFile, identities, storeFile, TRUE, added.result)
       ELSE IF ~ledgerWritable
       THEN state(added.entries, ledgerFile, identities, storeFile, TRUE, "EACCES")
       ELSE IF actionType \notin ReputationActions
       THEN state(added.entries, FileOf(added.entries, t), identities, storeFile,
                  FALSE, "ENTRY")
       ELSE IF details = Undefined
       THEN state(added.entries, FileOf(added.entries, t), identities, storeFile,
                  TRUE, "TypeError")
       ELSE IF rep.threw
       THEN state(added.entries, FileOf(added.entries, t), identities, storeFile,
                  TRUE, rep.result)
       ELSE IF ~storeWritable
       THEN state(added.entries, FileOf(added.entries, t), rep.identities, storeFile,
                  TRUE, "EACCES")
       ELSE state(added.entries, FileOf(added.entries, t), rep.identities,
                  StoreFileOf(rep.identities, lastActionTimestamps), FALSE, "ENTRY")

\* api.recordAction({agentId, publicKey, privateKey, actionType, details}) on a
\* disk where the ledger file and the store file can or cannot be written.
RecordActionOnDisk(agentId, publicKey, privateKey, actionType, details, ledgerWritable, storeWritable) ==
    \E t \in Clock :
        LET out == RecordOutcome(t, agentId, publicKey, privateKey, actionType,
                                 details, ledgerWritable, storeWritable)
        IN /\ Len(out.entries) <= MaxEntries
           /\ \A k \in 1..Len(out.identities) :
                IdentityVersion(out.identities[k].metadata) = Undefined
                \/ IdentityVersion(out.identities[k].metadata)[2] <= 2 * MaxPatch
           /\ entries' = out.entries
           /\ ledgerFile' = out.ledgerFile
           /\ identities' = out.identities
           /\ storeFile' = out.storeFile
           /\ now' = t
           /\ ret' = [op |-> "recordAction", threw |-> out.threw, result |-> out.result]
           /\ UNCHANGED <<loaded, lastActionTimestamps, engineVars>>

\* api.recordAction(params) when both files can be written
RecordAction(agentId, publicKey, privateKey, actionType, details) ==
    RecordActionOnDisk(agentId, publicKey, privateKey, actionType, details, TRUE, TRUE)

\* registry.registerIdentity(...) when the store file cannot be written
RegisterIdentityUnwritable(publicKey, originSystem, id, metadata, force) ==
    LET out == RegisterOutcome(identities, publicKey, originSystem, id, metadata, force)
    IN /\ ~out.threw
       /\ identities' = out.identities
       /\ ret' = [op |-> "registerIdentity", threw |-> TRUE, result |-> "EACCES"]
       /\ UNCHANGED <<storeFile, lastActionTimestamps, ledgerVars, now, engineVars>>

\* registry.revokeIdentity(id) when the store file cannot be written
RevokeIdentityUnwritable(id) ==
    /\ PosById(identities, id) # {}
    /\ identities' = [k \in 1..Len(identities) |->
                         IF identities[k].id = id
                         THEN [identities[k] EXCEPT !.revoked = TRUE]
                         ELSE identities[k]]
    /\ ret' = [op |-> "revokeIdentity", threw |-> TRUE, result |-> "EACCES"]
    /\ UNCHANGED <<storeFile, lastActionTimestamps, ledgerVars, now, engineVars>>

\* registry.validateAction(...) when the store file cannot be written
ValidateActionUnwritable(agentId, publicKey, message, signature, timestamp, originSystem) ==
    LET out == ValidateOutcome(identities, lastActionTimestamps, agentId, publicKey,
                               message, signature, timestamp, originSystem)
    IN /\ out.valid
       /\ lastActionTimestamps' = out.stamps
       /\ ret' = [op |-> "validateAction", threw |-> TRUE, result |-> "EACCES"]
       /\ UNCHANGED <<storeFile, identities, ledgerVars, now, engineVars>>

\* registry.migrateIdentity(id, migrationFn) when the store file cannot be written
MigrateIdentityUnwritable(id, newOrigin) ==
    LET out == MigrateOutcome(identities, id, newOrigin)
    IN /\ ~out.threw
       /\ \A k \in 1..Len(out.identities) :
              IdentityVersion(out.identities[k].metadata) = Undefined
              \/ IdentityVersion(out.identities[k].metadata)[2] <= MaxPatch
       /\ identities' = out.identities
       /\ ret' = [op |-> "migrateIdentity", threw |-> TRUE, result |-> "EACCES"]
       /\ UNCHANGED <<storeFile, lastActionTimestamps, ledgerVars, now, engineVars>>

(***************************************************************************)
(* Construction over the files of an earlier run.  A file whose content is  *)
(* not JSON is the record of its text; JSON.parse throws on it.             *)
(***************************************************************************)
CorruptFile == [exists |-> TRUE, text |-> "{ \"identities\": {"]
Corrupt(file) == file = CorruptFile

\* The store file is cut short: fs.writeFileSync is not atomic, a process that
\* dies while it writes leaves a part of the JSON text.
TruncateStoreFile ==
    /\ storeFile.exists /\ ~Corrupt(storeFile)
    /\ storeFile' = CorruptFile
    /\ ret' = [op |-> "truncate", threw |-> FALSE, result |-> "STORE"]
    /\ UNCHANGED <<identities, lastActionTimestamps, ledgerVars, now, engineVars>>

\* The ledger file is cut short in the same way.
TruncateLedgerFile ==
    /\ ledgerFile.exists /\ ~Corrupt(ledgerFile)
    /\ ledgerFile' = CorruptFile
    /\ ret' = [op |-> "truncate", threw |-> FALSE, result |-> "LEDGER"]
    /\ UNCHANGED <<entries, loaded, registryVars, now, engineVars>>

\* new IdentityReputationAPI(options): the registry's _loadStore parses the
\* store file and on any error logs it and starts a fresh store; the ledger is
\* loaded from its file and on any error a fresh one is started.
Construct ==
    LET storeRead == storeFile.exists /\ ~Corrupt(storeFile)
        ledgerRead == ledgerFile.exists /\ ~Corrupt(ledgerFile)
    IN /\ identities' = IF storeRead THEN storeFile.identities ELSE <<>>
       /\ lastActionTimestamps' = IF storeRead THEN storeFile.lastActionTimestamps
                                  ELSE [i \in Ids |-> Undefined]
       /\ entries' = IF ledgerRead THEN LoadEntries(ledgerFile) ELSE <<>>
       /\ ret' = [op |-> "construct", threw |-> FALSE, result |-> "API"]
       /\ UNCHANGED <<storeFile, ledgerFile, loaded, now, engineVars>>

(***************************************************************************)
(* TrustGraph and PredictiveSynergyEngine.  An agent id is the sequence of  *)
(* its characters, so that the keys of the collaboration matrix can be      *)
(* joined, sorted and searched as strings.  A node is the record of its id, *)
(* trustScore, the cooperation dimension of its trustProfile, and the pnl,  *)
(* count and violations of its performance and the in and out of its        *)
(* connections; collaborationMatrix is the sequence of its <<key, count>>   *)
(* entries in insertion order.  An identity of agentIdentities is the       *)
(* record of its trustScore and of the cooperation dimension.               *)
(***************************************************************************)
EmptyGraph == [nodes |-> <<>>, edges |-> <<>>, collaborationMatrix |-> <<>>]

\* The UTF-16 code unit order among the characters ids are written in.
CodeOf(c) == CASE c = "-" -> 45 [] c = "<" -> 60 [] c = ">" -> 62
               [] c = "a" -> 97 [] c = "b" -> 98 [] OTHER -> 99

\* s < t as Array.prototype.sort compares strings.
StringLess(s, t) ==
    \E k \in 1..(Len(s) + 1) :
        /\ k <= Len(t)
        /\ \A j \in 1..(k - 1) : s[j] = t[j]
        /\ k = Len(s) + 1 \/ CodeOf(s[k]) < CodeOf(t[k])

\* string.includes(sub)
StringIncludes(s, sub) ==
    \E k \in 0..(Len(s) - Len(sub)) : SubSeq(s, k + 1, k + Len(sub)) = sub

\* [id1, id2].sort().join('<->')
CollabKey(id1, id2) ==
    IF StringLess(id2, id1) THEN id2 \o <<"<", "-", ">">> \o id1
    ELSE id1 \o <<"<", "-", ">">> \o id2

NodeAt(g, id) == {k \in 1..Len(g.nodes) : g.nodes[k].id = id}
HasNode(g, id) == NodeAt(g, id) # {}
NodeOf(g, id) == g.nodes[First(NodeAt(g, id))]

\* TrustGraph._ensureNode(id, agentIdentities.get(id)): a new node takes the
\* trust of the identity, 0.5 when the map holds none; a node that exists
\* takes the trust of the identity when there is one.
EnsureNode(g, id, agentIdentities) ==
    LET known == id \in DOMAIN agentIdentities
    IN IF ~HasNode(g, id)
       THEN [g EXCEPT !.nodes = Append(@,
               [id |-> id,
                trustScore |-> IF known THEN agentIdentities[id].trustScore ELSE 5000,
                cooperation |-> IF known THEN agentIdentities[id].cooperation
                                ELSE Undefined,
                pnl |-> 0, count |-> 0, violations |-> 0, in |-> 0, out |-> 0])]
       ELSE IF known
       THEN [g EXCEPT !.nodes[First(NodeAt(g, id))].trustScore =
                            agentIdentities[id].trustScore,
                      !.nodes[First(NodeAt(g, id))].cooperation =
                            agentIdentities[id].cooperation]
       ELSE g

\* TrustGraph.addEdge: metadata is reduced to the outcome it carries.
AddEdge(g, source, target, type, outcome) ==
    LET pushed == [g EXCEPT !.edges = Append(@, [source |-> source, target |-> target,
                                                 type |-> type, outcome |-> outcome])]
        counted == IF HasNode(g, source)
                   THEN [pushed EXCEPT !.nodes[First(NodeAt(g, source))].out = @ + 1]
                   ELSE pushed
    IN IF HasNode(g, target)
       THEN [counted EXCEPT !.nodes[First(NodeAt(g, target))].in = @ + 1]
       ELSE counted

\* TrustGraph._incrementCollaboration
IncrementCollaboration(g, id1, id2) ==
    LET key == CollabKey(id1, id2)
        at == {k \in 1..Len(g.collaborationMatrix) : g.collaborationMatrix[k][1] = key}
    IN IF at = {}
       THEN [g EXCEPT !.collaborationMatrix = Append(@, <<key, 1>>)]
       ELSE [g EXCEPT !.collaborationMatrix[First(at)][2] = @ + 1]

\* partners.forEach of the COOPERATION case.
RECURSIVE AddPartners(_, _, _, _, _)
AddPartners(g, agentId, partners, outcome, agentIdentities) ==
    IF partners = <<>> THEN g
    ELSE LET partnerId == Head(partners)
             ensured == EnsureNode(g, partnerId, agentIdentities)
             linked == AddEdge(ensured, agentId, partnerId, "COLLABORATION", outcome)
         IN AddPartners(IncrementCollaboration(linked, agentId, partnerId), agentId,
                        Tail(partners), outcome, agentIdentities)

\* The body of the loop of buildFromLedger, for one entry.
BuildFromEntry(g, entry, agentIdentities) ==
    LET agentId == entry.agentId
        details == entry.details[2]
        ensured == EnsureNode(g, agentId, agentIdentities)
        at == First(NodeAt(ensured, agentId))
    IN CASE entry.actionType = Str("DELEGATION") ->
              LET delegatedTo == Get(details, "delegatedTo")
              IN IF delegatedTo # Undefined
                 THEN AddEdge(EnsureNode(ensured, delegatedTo, agentIdentities),
                              agentId, delegatedTo, "DELEGATION", Undefined)
                 ELSE ensured
         [] entry.actionType = Str("NEGOTIATION") ->
              LET counterparty == Get(details, "counterparty")
              IN IF counterparty # Undefined
                 THEN IncrementCollaboration(
                          AddEdge(EnsureNode(ensured, counterparty, agentIdentities),
                                  agentId, counterparty, "COLLABORATION", Undefined),
                          agentId, counterparty)
                 ELSE ensured
         [] entry.actionType = Str("COOPERATION") ->
              LET partners == Get(details, "partners")
              IN AddPartners(ensured, agentId,
                             IF partners = Undefined THEN <<>> ELSE partners[2],
                             Get(details, "outcome"), agentIdentities)
         [] entry.actionType = Str("ECONOMIC") ->
              LET pnl == Get(details, "pnl")
              IN [ensured EXCEPT !.nodes[at].pnl = @ + (IF pnl = Undefined THEN 0 ELSE pnl[2]),
                                 !.nodes[at].count = @ + 1]
         [] entry.actionType = Str("POLICY_VIOLATION") ->
              [ensured EXCEPT !.nodes[at].violations = @ + 1]
         [] OTHER -> ensured

\* TrustGraph.buildFromLedger over a fresh graph.
RECURSIVE BuildFrom(_, _, _)
BuildFrom(g, ledgerData, agentIdentities) ==
    IF ledgerData = <<>> THEN g
    ELSE BuildFrom(BuildFromEntry(g, Head(ledgerData), agentIdentities),
                   Tail(ledgerData), agentIdentities)

BuildFromLedger(ledgerData, agentIdentities) ==
    BuildFrom(EmptyGraph, ledgerData, agentIdentities)

\* array.sort((a, b) => b.key - a.key): descending, equal keys keep their order.
SortDescending(seq, Key(_)) ==
    LET rank(i) == 1 + Cardinality({j \in 1..Len(seq) :
                        \/ Key(seq[j]) > Key(seq[i])
                        \/ Key(seq[j]) = Key(seq[i]) /\ j < i})
    IN [r \in 1..Len(seq) |-> seq[CHOOSE i \in 1..Len(seq) : rank(i) = r]]

\* The sum of the counts of the matrix entries whose key contains id.
CollabScore(g, id) ==
    Sum([k \in 1..Len(g.collaborationMatrix) |->
            IF StringIncludes(g.collaborationMatrix[k][1], id)
            THEN g.collaborationMatrix[k][2] ELSE 0])

\* TrustGraph.getCentralNodes; centralityIndex in units of 1/Scale.
GetCentralNodes(g) ==
    LET central(node) ==
            [id |-> node.id,
             totalDegree |-> node.in + node.out,
             inDegree |-> node.in,
             outDegree |-> node.out,
             collabFrequency |-> CollabScore(g, node.id),
             centralityIndex |-> 15000 * node.in + Scale * node.out
                                 + 2 * Scale * CollabScore(g, node.id)]
        index(c) == c.centralityIndex
    IN SortDescending([k \in 1..Len(g.nodes) |-> central(g.nodes[k])], index)

\* The neighbours along the edges that leave currentId only.
NeighborsDownstream(g, currentId) ==
    LET leaving == SelectSeq(g.edges, LAMBDA e : e.source = currentId)
    IN [k \in 1..Len(leaving) |-> leaving[k].target]

\* The neighbours of currentId: the other end of each edge that touches it.
Neighbors(g, currentId) ==
    LET touching == SelectSeq(g.edges, LAMBDA e : e.source = currentId \/ e.target = currentId)
    IN [k \in 1..Len(touching) |->
            IF touching[k].source = currentId THEN touching[k].target
            ELSE touching[k].source]

\* The loop over the neighbours: those not visited and of low trust are queued.
RECURSIVE Enqueue(_, _, _, _)
Enqueue(neighbors, visited, queue, lowTrustIds) ==
    IF neighbors = <<>> THEN [visited |-> visited, queue |-> queue]
    ELSE IF Head(neighbors) \notin visited /\ Head(neighbors) \in lowTrustIds
    THEN Enqueue(Tail(neighbors), visited \cup {Head(neighbors)},
                 Append(queue, Head(neighbors)), lowTrustIds)
    ELSE Enqueue(Tail(neighbors), visited, queue, lowTrustIds)

\* The breadth-first walk from the queue: the cluster and the ids visited.
RECURSIVE Walk(_, _, _, _, _)
Walk(g, queue, visited, cluster, lowTrustIds) ==
    IF queue = <<>> THEN [cluster |-> cluster, visited |-> visited]
    ELSE LET next == Enqueue(Neighbors(g, Head(queue)), visited, Tail(queue), lowTrustIds)
         IN Walk(g, next.queue, next.visited, Append(cluster, NodeOf(g, Head(queue))),
                 lowTrustIds)

\* A cluster as getRiskClusters reports it: averageTrust is the pair of the
\* sum and the size, riskLevel = (1 - avgTrust) * size + 2 * totalViolations
\* in units of 1/Scale.
ClusterOf(cluster) ==
    LET trust == Sum([k \in 1..Len(cluster) |-> cluster[k].trustScore])
        totalViolations == Sum([k \in 1..Len(cluster) |-> cluster[k].violations])
    IN [nodes |-> [k \in 1..Len(cluster) |-> cluster[k].id],
        size |-> Len(cluster),
        averageTrust |-> <<trust, Len(cluster)>>,
        totalViolations |-> totalViolations,
        riskLevel |-> Scale * Len(cluster) - trust + 2 * Scale * totalViolations]

\* n.trustScore < 0.4 || n.performance.violations > 0
LowTrust(node) == node.trustScore < 4000 \/ node.violations > 0

\* The loop over lowTrustNodes, from the k-th on.
RECURSIVE ClustersFrom(_, _, _, _, _)
ClustersFrom(g, lowTrustNodes, k, visited, clusters) ==
    IF k > Len(lowTrustNodes) THEN clusters
    ELSE IF lowTrustNodes[k].id \in visited
    THEN ClustersFrom(g, lowTrustNodes, k + 1, visited, clusters)
    ELSE LET walked == Walk(g, <<lowTrustNodes[k].id>>, visited \cup {lowTrustNodes[k].id},
                            <<>>, {lowTrustNodes[j].id : j \in 1..Len(lowTrustNodes)})
         IN ClustersFrom(g, lowTrustNodes, k + 1, walked.visited,
                         Append(clusters, ClusterOf(walked.cluster)))

\* TrustGraph.getRiskClusters
GetRiskClusters(g) ==
    LET level(c) == c.riskLevel
    IN SortDescending(ClustersFrom(g, SelectSeq(g.nodes, LowTrust), 1, {}, <<>>), level)

\* childId + " (LOOP)"
LoopMarker == <<" ", "(", "L", "O", "O", "P", ")">>

\* The ids the DELEGATION edges from currentId lead to.
DelegationChildren(g, currentId) ==
    LET delegated == SelectSeq(g.edges, LAMBDA e : e.source = currentId /\ e.type = "DELEGATION")
    IN [k \in 1..Len(delegated) |-> delegated[k].target]

\* traverse(currentId, currentChain) of getDelegationChains, as the chains it
\* pushes; TraverseChildren is its loop over the children.
RECURSIVE Traverse(_, _, _)
RECURSIVE TraverseChildren(_, _, _)
Traverse(g, currentId, currentChain) ==
    IF DelegationChildren(g, currentId) = <<>>
    THEN IF Len(currentChain) > 1 THEN <<currentChain>> ELSE <<>>
    ELSE TraverseChildren(g, DelegationChildren(g, currentId), currentChain)

TraverseChildren(g, children, currentChain) ==
    IF children = <<>> THEN <<>>
    ELSE (IF Includes(currentChain, Head(children))
          THEN <<Append(currentChain, Head(children) \o LoopMarker)>>
          ELSE Traverse(g, Head(children), Append(currentChain, Head(children))))
         \o TraverseChildren(g, Tail(children), currentChain)

\* The seeds: startId, or the nodes with in = 0 and out > 0.
Seeds(g, startId) ==
    IF startId # Null THEN <<startId>>
    ELSE LET seeding == SelectSeq(g.nodes, LAMBDA n : n.in = 0 /\ n.out > 0)
         IN [k \in 1..Len(seeding) |-> seeding[k].id]

\* The loop over the seeds.
RECURSIVE ChainsFrom(_, _)
ChainsFrom(g, seeds) ==
    IF seeds = <<>> THEN <<>>
    ELSE Traverse(g, Head(seeds), <<Head(seeds)>>) \o ChainsFrom(g, Tail(seeds))

\* TrustGraph.getDelegationChains
GetDelegationChains(g, startId) == ChainsFrom(g, Seeds(g, startId))

\* The filter of forecastSynergy: && binds tighter than ||, so the type is
\* tested on the edges from agentId2 to agentId1 only.
HistoricalEdges(g, agentId1, agentId2) ==
    SelectSeq(g.edges, LAMBDA e :
        \/ e.source = agentId1 /\ e.target = agentId2
        \/ /\ e.source = agentId2 /\ e.target = agentId1
           /\ e.type = "COLLABORATION")

\* synergyBoost(count), in units of 1/Scale.
SynergyBoost(count) == IF count = 0 THEN Scale ELSE IF count < 5 THEN 11000 ELSE 12500

\* The forecast of forecastSynergy from the historical edges.  successRate is
\* the pair of the successes and the edges, 4 of 5 when there are none; the
\* numbers of the forecast are in units of 1/Scale, rounded as toFixed(4)
\* rounds.
ForecastFrom(g, agentId1, agentId2, historicalEdges) ==
    LET node1 == NodeOf(g, agentId1)
        node2 == NodeOf(g, agentId2)
        key == CollabKey(agentId1, agentId2)
        counted == {k \in 1..Len(g.collaborationMatrix) : g.collaborationMatrix[k][1] = key}
        historicalCount == IF counted = {} THEN 0
                           ELSE g.collaborationMatrix[First(counted)][2]
        successes == Len(SelectSeq(historicalEdges, LAMBDA e : e.outcome = Str("SUCCESS")))
        successRate == IF Len(historicalEdges) > 0 THEN <<successes, Len(historicalEdges)>>
                       ELSE <<4, 5>>
        coop1 == Or(node1.cooperation, Num(5000))[2]
        coop2 == Or(node2.cooperation, Num(5000))[2]
        count1 == IF node1.count > 0 THEN node1.count ELSE 1
        count2 == IF node2.count > 0 THEN node2.count ELSE 1
    IN [pair |-> <<agentId1, agentId2>>,
        synergyProbability |->
            Round(12 * Scale * successRate[1] + 4 * (coop1 + coop2) * successRate[2],
                  20 * successRate[2]),
        predictedOutcome |-> IF 10 * successRate[1] > 7 * successRate[2]
                             THEN "SUCCESS" ELSE "STABLE",
        predictedEconomicSurplus |->
            Round((node1.pnl * count2 + node2.pnl * count1) * SynergyBoost(historicalCount),
                  count1 * count2),
        confidence |-> IF historicalCount > 0 THEN Min(5000 + 1000 * historicalCount, 9500)
                       ELSE 4000,
        recommendation |->
            IF 10 * successRate[1] * (coop1 + coop2) > 12 * Scale * successRate[2]
            THEN "PROMOTE_COLLABORATION" ELSE "MONITORED_COOPERATION"]

\* PredictiveSynergyEngine.forecastSynergy
ForecastSynergy(g, agentId1, agentId2) ==
    IF ~HasNode(g, agentId1) \/ ~HasNode(g, agentId2)
    THEN [synergyProbability |-> 5000, reason |-> "One or both agents unknown to graph."]
    ELSE ForecastFrom(g, agentId1, agentId2, HistoricalEdges(g, agentId1, agentId2))

\* TrustGraph.toJSON over the graph built from the ledger: the summary.
ToJSON ==
    LET g == BuildFromLedger(entries, identities)
    IN /\ ret' = [op |-> "getTrustGraph", threw |-> FALSE,
                  result |-> [totalNodes |-> Len(g.nodes),
                              totalEdges |-> Len(g.edges),
                              centralNodes |-> SubSeq(GetCentralNodes(g), 1,
                                                      Min(5, Len(g.nodes))),
                              riskClusters |-> GetRiskClusters(g),
                              delegationChains |-> GetDelegationChains(g, Null)]]
       /\ UNCHANGED <<ledgerVars, registryVars, now, engineVars>>

\* predictor.forecastSynergy(agentId1, agentId2) over the graph built from
\* the ledger.
ForecastSynergyOf(agentId1, agentId2) ==
    /\ ret' = [op |-> "forecastSynergy", threw |-> FALSE,
               result |-> ForecastSynergy(BuildFromLedger(entries, identities),
                                          agentId1, agentId2)]
    /\ UNCHANGED <<ledgerVars, registryVars, now, engineVars>>

(***************************************************************************)
(* Store migration on load.  A store read from the file carries            *)
(* meta.schemaVersion and, per identity, schemaVersion; a migration a       *)
(* caller registers under version n is the function that notes n in         *)
(* store.applied and returns the store.                                     *)
(***************************************************************************)
CURRENT_IDENTITY_SCHEMA_VERSION == 3

\* The migration function registered under version n.
RegisteredMigration(store, n) == [store EXCEPT !.applied = Append(@, n)]

\* The default migration: an identity without a schemaVersion gets nextVer.
DefaultMigration(store, nextVer) ==
    LET stamp(identity) == IF Truthy(identity.schemaVersion) THEN identity
                           ELSE [identity EXCEPT !.schemaVersion = Num(nextVer)]
    IN [store EXCEPT !.identities = [k \in DOMAIN store.identities |->
                                         stamp(store.identities[k])]]

\* One turn of the loop with the default migration left out.
MigrationStepUnstamped(store, nextVer, migrations) ==
    LET migrated == IF nextVer \in migrations
                    THEN RegisteredMigration(store, nextVer) ELSE store
    IN [migrated EXCEPT !.meta.schemaVersion = Num(nextVer)]

\* One turn of the loop of _performStoreMigration: the migration registered
\* under nextVer, or the default one, and the store is marked with nextVer.
MigrationStep(store, nextVer, migrations) ==
    LET migrated == IF nextVer \in migrations
                    THEN RegisteredMigration(store, nextVer)
                    ELSE DefaultMigration(store, nextVer)
    IN [migrated EXCEPT !.meta.schemaVersion = Num(nextVer)]

\* The loop: while currentVer < CURRENT, one step to currentVer + 1.  log is
\* the versions console.log names as the target of a step.
RECURSIVE MigrateFrom(_, _, _, _)
MigrateFrom(store, currentVer, migrations, log) ==
    IF currentVer < CURRENT_IDENTITY_SCHEMA_VERSION
    THEN MigrateFrom(MigrationStep(store, currentVer + 1, migrations),
                     currentVer + 1, migrations, Append(log, currentVer + 1))
    ELSE [store |-> store, log |-> log]

\* _performStoreMigration: currentVer = store.meta.schemaVersion || 1.
PerformStoreMigration(store, migrations) ==
    MigrateFrom(store, Or(store.meta.schemaVersion, Num(1))[2], migrations, <<>>)

\* new AgentIdentityRegistry({storePath, migrations}) over a store file:
\* _loadStore parses the file and migrates the store in memory.
LoadStore(migrations) ==
    LET out == PerformStoreMigration(storeFile, migrations)
    IN /\ Len(calls) < MaxCalls
       /\ identities' = out.store.identities
       /\ lastActionTimestamps' = out.store.lastActionTimestamps
       /\ ret' = [op |-> "loadStore", threw |-> FALSE,
                  result |-> out.store.meta.schemaVersion]
       /\ calls' = Append(calls, [stored |-> storeFile, migrations |-> migrations,
                                  store |-> out.store, log |-> out.log])
       /\ UNCHANGED <<storeFile, ledgerVars, now, metrics, history, trustScore,
                      proposal>>

(***************************************************************************)
(* Specifications                                                          *)
(***************************************************************************)
NoStoreFile == [exists |-> FALSE, identities |-> <<>>,
                lastActionTimestamps |-> [i \in Ids |-> Undefined]]

\* A fresh ledger, and a fresh registry over a path that holds no store file.
Fresh ==
    /\ entries = <<>>
    /\ ledgerFile = NoFile
    /\ loaded = <<>>
    /\ now = 0
    /\ ret = [op |-> "none", threw |-> FALSE, result |-> "NONE"]
    /\ identities = <<>>
    /\ lastActionTimestamps = [i \in Ids |-> Undefined]
    /\ storeFile = NoStoreFile

\* The API after construction: no engine call has been made yet.
Init ==
    /\ Fresh
    /\ metrics = Null
    /\ history = <<>>
    /\ trustScore = Null
    /\ proposal = Null
    /\ calls = <<>>

\* The details payloads of the calls, and the values a tampered property takes.
Priced == Obj(<< <<"price", Num(50)>> >>)
TamperValues == {Null, Str(""), Num(0), Str("evil"), Obj(<< <<"price", Num(0)>> >>)}

\* The ledger in memory: every call of its interface, by any caller.
NextLedger ==
    \/ \E privateKey \in PrivateKeys \cup {Str("garbage"), Null},
          actionType \in {Str("ECONOMIC_OUTCOME"), Null},
          details \in {Undefined, Priced} :
            AddEntry(Str("did:agent:pk1"), Str("pk1"), privateKey, actionType, details)
    \/ SaveToFile
    \/ \E i \in 1..MaxEntries : SetDetailsProperty(i, "price", Num(0))
    \/ \E i \in 1..MaxEntries : AssignEntryField(i, "actionType", Str("evil"))

SpecLedger == Init /\ [][NextLedger]_vars

\* The ledger and its file: saving, loading, and loading a tampered copy.
NextPersist ==
    \/ \E privateKey \in PrivateKeys :
            AddEntry(Str("did:agent:pk1"), Str("pk1"), privateKey,
                     Str("ECONOMIC_OUTCOME"), Priced)
    \/ SaveToFile
    \/ LoadFromFile
    \/ \E i \in 1..MaxEntries, field \in HashCovered, v \in TamperValues :
            LoadTamperedCopy(i, field, v)

SpecPersist == Init /\ [][NextPersist]_vars

\* A fresh ledger that receives only valid addEntry calls: each is signed with
\* the private key that corresponds to the public key it supplies.
NextAppend ==
    \E agentId \in Ids, privateKey \in PrivateKeys,
       actionType \in {Str("ECONOMIC_OUTCOME"), Str("DELEGATION")},
       details \in {Undefined, Priced} :
        AddEntry(agentId, PublicOf(privateKey), privateKey, actionType, details)

SpecAppend == Init /\ [][NextAppend]_vars

\* The private key that is the counterpart of a public key.
PrivateOf(publicKey) == IF publicKey = Str("pk1") THEN Str("sk1") ELSE Str("sk2")

\* The message the callers sign, and the timestamps they send with it: none, an
\* unparseable one, and ISO-8601 strings of instants from the Unix epoch on.
Message == Str("allocate")
Timestamps == {Null, Str("garbage")} \cup {Iso(n) : n \in 0..MaxTime}

\* The ways a caller names the acting identity: by agentId, else by publicKey.
Actors == {<<Str("did:agent:pk1"), Null>>, <<Str("x"), Null>>,
           <<Null, Str("pk1")>>, <<Null, Null>>}

\* The registry on its own: every call of its interface, by any caller.
NextRegistry ==
    \/ \E publicKey \in {Str("pk1"), Null}, originSystem \in Origins,
          id \in {Null, Str("x")}, force \in BOOLEAN :
            RegisterIdentity(publicKey, originSystem, id, Null, force)
    \/ \E id \in Ids : RevokeIdentity(id)
    \/ \E actor \in Actors,
          signature \in {Sign(Message, k) : k \in PrivateKeys} \cup {Null},
          timestamp \in Timestamps, originSystem \in {Str("o1"), Null} :
            ValidateAction(actor[1], actor[2], Message, signature, timestamp,
                           originSystem)
    \/ \E id \in Ids, newOrigin \in Origins \cup {Null} : MigrateIdentity(id, newOrigin)

SpecRegistry == Init /\ [][NextRegistry]_vars

\* A fresh registry that receives only registerIdentity calls without force.
NextRegister ==
    \E publicKey \in PublicKeys \cup {Null}, originSystem \in Origins,
       id \in {Null, Str("x")}, metadata \in {Null, BareMetadata} :
        RegisterIdentity(publicKey, originSystem, id, metadata, FALSE)

SpecRegister == Init /\ [][NextRegister]_vars

\* The IdentityReputationAPI: a registry, and a ledger constructed as
\* new AgentActivityLedger(this.registry), used by the callers of the API.
Next ==
    \/ \E publicKey \in PublicKeys :
            RegisterIdentity(publicKey, Str("o1"), Null, Null, FALSE)
    \/ \E id \in Ids : RevokeIdentity(id)
    \/ \E publicKey \in PublicKeys, privateKey \in PrivateKeys :
            ValidateAction(Fingerprint(publicKey), Null, Message,
                           Sign(Message, privateKey), Null, Null)
    \/ \E privateKey \in PrivateKeys :
            AddEntry(Fingerprint(PublicOf(privateKey)), PublicOf(privateKey), privateKey,
                     Str("ECONOMIC_OUTCOME"), Priced)
    \/ SaveToFile

Spec == Init /\ [][Next]_vars

\* The trust scores of the agents: the multiples of 0.01 from below 0 to above
\* 1, and the values 0.0001 below them.
Scores == UNION {{100 * k - 1, 100 * k} : k \in -2..MaxScoreStep}

\* An agent of some trust score, whose governance profile is asked for.
InitGovernance ==
    /\ Fresh
    /\ metrics = Null
    /\ history = <<>>
    /\ trustScore \in Scores
    /\ proposal = Null
    /\ calls = <<>>

NextGovernance == GetGovernanceProfile

SpecGovernance == InitGovernance /\ [][NextGovernance]_vars

\* The trust scores of the agents that propose: some in every tier.
AgentScores == {1000, 2000, 4000, 7000, 7400, 7600, 9000, 10000}

\* The proposals: every property is left out or takes one of a few values.
Proposals ==
    [type : {Str("TRANSACTION")},
     impactScore : {Undefined, Num(6000), Num(7500), Num(10000)},
     riskScore : {Undefined, Num(500), Num(5000), Num(9500)},
     cost : {Undefined, Num(50), Num(400), Num(5000), Num(10600)},
     policyTags : {Undefined,
                   Arr(<<"FINANCIAL", "INFRASTRUCTURE">>),
                   Arr(<<"HIGH_PRIVILEGE">>),
                   Arr(<<"SENSITIVE_DATA">>),
                   Arr(<<"FINANCIAL", "AUDIT", "REPORTING", "EXPORT">>)},
     confirmations : {Undefined, Num(2), Num(4), Num(5)},
     humanApproved : {Undefined, Bool(FALSE), Bool(TRUE)}]

\* An agent of some trust score with a proposal to validate.
InitValidator ==
    /\ Fresh
    /\ metrics = Null
    /\ history = <<>>
    /\ trustScore \in AgentScores
    /\ proposal \in Proposals
    /\ calls = <<>>

NextValidator == Validate

SpecValidator == InitValidator /\ [][NextValidator]_vars

\* The performance a new PersistentAgentIdentity starts with.
DefaultPerformance ==
    [reliability |-> Num(10000), uptime |-> Num(10000), consistency |-> Num(10000),
     roi |-> Num(0), budgetEfficiency |-> Num(10000), cooperationScore |-> Num(10000),
     informationSharingScore |-> Undefined, policyViolations |-> Num(0),
     complianceHistory |-> Num(10000), riskExposure |-> Num(500),
     taskSuccessRate |-> Num(10000), taskComplexityScore |-> Num(0)]

\* A performance the caller of the constructor supplies, carrying every metric.
FullPerformance ==
    [reliability |-> Num(10000), uptime |-> Num(10000), consistency |-> Num(10000),
     roi |-> Num(1000000), budgetEfficiency |-> Num(10000),
     cooperationScore |-> Num(10000), informationSharingScore |-> Num(5000),
     policyViolations |-> Num(0), complianceHistory |-> Num(10000),
     riskExposure |-> Num(5000), taskSuccessRate |-> Num(10000),
     taskComplexityScore |-> Num(10000)]

\* The values a metric takes: absent, the ends and the middle of its domain, and
\* a value on either side of the domain.
MetricValues(name) ==
    IF name = "roi"
    THEN {Undefined, Num(0), Num(500000), Num(1000000), Num(2000000), Num(-500000)}
    ELSE IF name = "policyViolations"
    THEN {Undefined, Num(0), Num(10000), Num(40000), Num(60000), Num(-10000)}
    ELSE {Undefined, Num(0), Num(5000), Num(10000), Num(20000), Num(-5000)}

\* A snapshot handed to calculateScore whose every metric is at its optimum, with
\* riskExposure 0.01; reliability, informationSharingScore and policyViolations
\* are left out.
TieringStart ==
    [reliability |-> Undefined, uptime |-> Num(10000), consistency |-> Num(10000),
     roi |-> Num(1000000), budgetEfficiency |-> Num(10000),
     cooperationScore |-> Num(10000), informationSharingScore |-> Undefined,
     policyViolations |-> Undefined, complianceHistory |-> Num(10000),
     riskExposure |-> Num(100), taskSuccessRate |-> Num(10000),
     taskComplexityScore |-> Num(10000)]

\* The same snapshot after an incident like the one of the governance demo:
\* policyViolations 4, complianceHistory 0.3 and riskExposure 0.7.
TieringIncident ==
    [TieringStart EXCEPT !.policyViolations = Num(40000),
                         !.complianceHistory = Num(3000),
                         !.riskExposure = Num(7000)]

\* The snapshots: DefaultPerformance or FullPerformance with up to two metrics
\* set otherwise, and the two around the incident.
Snapshots ==
    UNION {{[base EXCEPT ![pair[1]] = v, ![pair[2]] = w] :
                v \in MetricValues(pair[1]), w \in MetricValues(pair[2]),
                base \in {DefaultPerformance, FullPerformance}} :
           pair \in MetricNames \X MetricNames}
        \cup {TieringStart, TieringIncident}

\* The histories: none, a version history entry (it carries no riskExposure),
\* and an earlier snapshot of low risk.
Histories == {<<>>, <<[riskExposure |-> Undefined]>>, <<[riskExposure |-> Num(100)]>>}

\* A snapshot and a history to score.
InitScoring ==
    /\ Fresh
    /\ metrics \in Snapshots
    /\ history \in Histories
    /\ trustScore = Null
    /\ proposal = Null
    /\ calls = <<>>

NextScoring == CalculateScore

SpecScoring == InitScoring /\ [][NextScoring]_vars

\* The agent of the domain trust demo: technically proficient, poor at compliance.
MixedAgent ==
    [reliability |-> Num(9500), uptime |-> Num(9800), consistency |-> Num(9200),
     roi |-> Num(4500000), budgetEfficiency |-> Num(9800),
     cooperationScore |-> Num(5000), informationSharingScore |-> Undefined,
     policyViolations |-> Num(40000), complianceHistory |-> Num(3000),
     riskExposure |-> Num(7000), taskSuccessRate |-> Num(9900),
     taskComplexityScore |-> Num(8500)]

\* The proposal of the demo, and the same without a cost.
ContextProposals ==
    {[type |-> Str("RESOURCE_ALLOCATION"), impactScore |-> Num(6000),
      riskScore |-> Num(5000), cost |-> c,
      policyTags |-> Arr(<<"FINANCIAL", "INFRASTRUCTURE">>),
      confirmations |-> Undefined, humanApproved |-> Undefined] :
        c \in {Num(5000), Undefined}}

\* The contexts a caller names: the five projections, none, and an unknown one.
Contexts == {Str(c) : c \in ContextNames} \cup {Null, Str("legal")}

\* An agent whose trust profile was computed by updatePerformance, that is with
\* its version history as history, and a proposal.
InitContext ==
    /\ Fresh
    /\ metrics \in {MixedAgent, DefaultPerformance, FullPerformance, TieringIncident}
    /\ history = <<[riskExposure |-> Undefined]>>
    /\ trustScore = ScoreOf(metrics, history, 0).composite
    /\ proposal \in ContextProposals
    /\ calls = <<>>

NextContext ==
    \/ \E context \in Contexts : GetGovernanceProfileIn(context)
    \/ \E context \in Contexts : ValidateIn(context)

SpecContext == InitContext /\ [][NextContext]_vars

\* The performance p with lastUpdated set.
WithLastUpdated(p, lastUpdated) ==
    [name \in DOMAIN p \cup {"lastUpdated"} |->
        IF name = "lastUpdated" THEN lastUpdated ELSE p[name]]

\* An agent of mixed record, and one whose performance lacks some metrics.
Seasoned ==
    [reliability |-> Num(9200), uptime |-> Num(9800), consistency |-> Num(2000),
     roi |-> Num(4500000), budgetEfficiency |-> Num(9800),
     cooperationScore |-> Num(5000), informationSharingScore |-> Undefined,
     policyViolations |-> Num(40000), complianceHistory |-> Num(3000),
     riskExposure |-> Num(7000), taskSuccessRate |-> Num(5000),
     taskComplexityScore |-> Num(8500)]
Sparse ==
    [Seasoned EXCEPT !.consistency = Undefined, !.riskExposure = Undefined,
                     !.complianceHistory = Num(10000), !.reliability = Num(1500)]

\* The batches of recent actions: none, a success of high quality, a failure of
\* low quality, a success that reports nothing else, and mixtures.
GoodAction == [success |-> Bool(TRUE), cooperationScore |-> Num(10000), quality |-> Num(9000)]
BadAction == [success |-> Bool(FALSE), cooperationScore |-> Undefined, quality |-> Num(1000)]
PlainAction == [success |-> Bool(TRUE), cooperationScore |-> Undefined, quality |-> Undefined]
ActionBatches ==
    {<<>>, <<GoodAction>>, <<BadAction>>, <<PlainAction>>, <<GoodAction, BadAction>>,
     <<GoodAction, GoodAction>>, <<BadAction, BadAction>>}

\* A performance last updated at the epoch, or never, to evolve.
InitEvolution ==
    /\ Fresh
    /\ metrics \in {WithLastUpdated(p, lastUpdated) :
                        p \in {DefaultPerformance, Seasoned, Sparse},
                        lastUpdated \in {Iso(0), Undefined}}
    /\ history = <<>>
    /\ trustScore = Null
    /\ proposal = Null
    /\ calls = <<>>

NextEvolution == \E recentActions \in ActionBatches : Evolve(recentActions)

SpecEvolution == InitEvolution /\ [][NextEvolution]_vars

\* The metrics a caller hands to updatePerformance: none, a riskExposure, the
\* incident of the governance demo, a lower reliability.
PerformanceUpdates ==
    {<<>>, [riskExposure |-> Num(0)], [riskExposure |-> Num(5000)],
     [policyViolations |-> Num(40000), complianceHistory |-> Num(3000),
      riskExposure |-> Num(9000), reliability |-> Num(4000)],
     [reliability |-> Num(5000)]}

\* An identity as registerAgent returns it when given no performance.
InitReputation ==
    /\ Fresh
    /\ metrics = WithLastUpdated(DefaultPerformance, Iso(0))
    /\ history = <<VersionEntry>>
    /\ trustScore = ScoreOf(DefaultPerformance, <<>>, 0).composite
    /\ proposal = Null
    /\ calls = <<>>

NextReputation ==
    \/ \E updates \in PerformanceUpdates : UpdatePerformance(updates)
    \/ \E recentActions \in ActionBatches : UpdateReputation(recentActions)

SpecReputation == InitReputation /\ [][NextReputation]_vars

\* What api.registerAgent makes of caller-supplied metadata: identityVersion is
\* supplied when it is missing, nothing else is.
FinalMetadata(metadata) ==
    IF metadata = Null THEN Null
    ELSE Meta(Or(IdentityVersion(metadata), Ver(0)), VersionHistory(metadata))

\* api.registerAgent({publicKey, originSystem, id, metadata})
RegisterAgent(publicKey, originSystem, id, metadata) ==
    RegisterIdentity(publicKey, originSystem, id, FinalMetadata(metadata), FALSE)

\* The metadata a caller registers with: none, a complete one, the one of the
\* API test (identityVersion and type), and one without identityVersion.
CallerMetadata == {Null, DefaultMetadata, BareMetadata, Meta(Undefined, Undefined)}

\* The API: agents are registered, some with metadata of their own, and their
\* identities upgraded by migrations that leave the record as it is.
NextUpgrade ==
    \/ \E publicKey \in PublicKeys, originSystem \in Origins, id \in {Null, Str("x")},
          metadata \in CallerMetadata :
            RegisterAgent(publicKey, originSystem, id, metadata)
    \/ \E id \in Ids : MigrateIdentity(id, Null)

SpecUpgrade == Init /\ [][NextUpgrade]_vars

\* The API on a disk that may refuse a write: every call that persists, with
\* the write succeeding or failing.
NextDisk ==
    \/ \E force \in BOOLEAN :
            RegisterIdentity(Str("pk1"), Str("o1"), Null, Null, force)
    \/ RevokeIdentity(Str("did:agent:pk1"))
    \/ \E timestamp \in {Null, Iso(MaxTime)} :
            ValidateAction(Str("did:agent:pk1"), Null, Message,
                           Sign(Message, Str("sk1")), timestamp, Null)
    \/ MigrateIdentity(Str("did:agent:pk1"), Null)
    \/ \E actionType \in {Str("ECONOMIC_OUTCOME"), Str("DELEGATION")},
          ledgerWritable \in BOOLEAN, storeWritable \in BOOLEAN :
            RecordActionOnDisk(Str("did:agent:pk1"), Str("pk1"), Str("sk1"), actionType,
                               Priced, ledgerWritable, storeWritable)
    \/ \E force \in BOOLEAN :
            RegisterIdentityUnwritable(Str("pk1"), Str("o1"), Null, Null, force)
    \/ RevokeIdentityUnwritable(Str("did:agent:pk1"))
    \/ \E timestamp \in {Null, Iso(MaxTime)} :
            ValidateActionUnwritable(Str("did:agent:pk1"), Null, Message,
                                     Sign(Message, Str("sk1")), timestamp, Null)
    \/ MigrateIdentityUnwritable(Str("did:agent:pk1"), Null)

SpecDisk == Init /\ [][NextDisk]_vars

\* Runs of the API over the same files: agents are registered, actions recorded,
\* a file may be cut short, and the API is constructed anew.
NextRestart ==
    \/ \E publicKey \in PublicKeys :
            RegisterIdentity(publicKey, Str("o1"), Null, Null, FALSE)
    \/ \E privateKey \in PrivateKeys :
            RecordAction(Fingerprint(PublicOf(privateKey)), PublicOf(privateKey),
                         privateKey, Str("DELEGATION"), Priced)
    \/ TruncateStoreFile
    \/ TruncateLedgerFile
    \/ Construct

SpecRestart == Init /\ [][NextRestart]_vars

\* The values a tampered signature or publicKey takes: those of TamperValues,
\* the other key, and a signature made with the other key.
ForgedValues ==
    TamperValues \cup {Str("pk2")} \cup {Sign(Hash(<<>>), k) : k \in PrivateKeys}

\* The ledger file under every kind of tampering: any property of any entry of
\* the saved ledger is overwritten and the copy loaded.
NextTamper ==
    \/ \E privateKey \in PrivateKeys :
            AddEntry(Str("did:agent:pk1"), Str("pk1"), privateKey,
                     Str("ECONOMIC_OUTCOME"), Priced)
    \/ SaveToFile
    \/ \E i \in 1..MaxEntries, g \in 1..Len(EntryFields), v \in ForgedValues :
            LoadTamperedCopy(i, EntryFields[g], v)

SpecTamper == Init /\ [][NextTamper]_vars

\* The registry as the replay protection sees it: identities are registered and
\* revoked, and actions validated under every actor, signature and timestamp.
NextWatermark ==
    \/ \E publicKey \in PublicKeys, originSystem \in Origins :
            RegisterIdentity(publicKey, originSystem, Null, Null, FALSE)
    \/ RevokeIdentity(Str("did:agent:pk1"))
    \/ \E actor \in Actors,
          signature \in {Sign(Message, k) : k \in PrivateKeys} \cup {Null},
          timestamp \in Timestamps, originSystem \in {Str("o1"), Null} :
            ValidateAction(actor[1], actor[2], Message, signature, timestamp,
                           originSystem)

SpecWatermark == Init /\ [][NextWatermark]_vars

\* The identities of a store written before identities carried a
\* schemaVersion, or after.
StoredIdentity(id, schemaVersion) == [id |-> id, schemaVersion |-> schemaVersion]
StoredVersions == {Undefined} \cup {Num(v) : v \in 0..(CURRENT_IDENTITY_SCHEMA_VERSION + 1)}

\* A store file of any schema version, with two identities.
InitMigration ==
    /\ entries = <<>> /\ ledgerFile = NoFile /\ loaded = <<>> /\ now = 0
    /\ ret = [op |-> "none", threw |-> FALSE, result |-> "NONE"]
    /\ identities = <<>>
    /\ lastActionTimestamps = [i \in Ids |-> Undefined]
    /\ \E v \in StoredVersions, s1, s2 \in {Undefined, Num(1)} :
          storeFile = [exists |-> TRUE,
                       identities |-> <<StoredIdentity(Str("did:agent:pk1"), s1),
                                        StoredIdentity(Str("did:agent:pk2"), s2)>>,
                       meta |-> [schemaVersion |-> v],
                       applied |-> <<>>,
                       lastActionTimestamps |-> [i \in Ids |-> Undefined]]
    /\ metrics = Null
    /\ history = <<>>
    /\ trustScore = Null
    /\ proposal = Null
    /\ calls = <<>>

NextMigration ==
    \E migrations \in SUBSET (1..(CURRENT_IDENTITY_SCHEMA_VERSION + 1)) :
        LoadStore(migrations)

SpecMigration == InitMigration /\ [][NextMigration]_vars

\* The agents of the graph: one id is a part of another.
GraphIds == {<<"a">>, <<"a", "b">>, <<"b">>}

\* The ledger entries the graph is built from, by what buildFromLedger reads.
GraphEntry(agentId, actionType, details) ==
    [agentId |-> agentId, actionType |-> Str(actionType), details |-> Obj(details)]

\* Two agents, and three, all different.
AgentPairs == {p \in GraphIds \X GraphIds : p[1] # p[2]}
AgentTriples == {p \in GraphIds \X GraphIds \X GraphIds :
                    p[1] # p[2] /\ p[1] # p[3] /\ p[2] # p[3]}

GraphEntries ==
    {GraphEntry(p[1], "DELEGATION", << <<"delegatedTo", p[2]>> >>) : p \in AgentPairs}
    \cup {GraphEntry(p[1], "NEGOTIATION", << <<"counterparty", p[2]>> >>) : p \in AgentPairs}
    \cup {GraphEntry(p[1], "COOPERATION",
                     << <<"partners", Arr(<<p[2]>>)>>, <<"outcome", Str(o)>> >>) :
            p \in AgentPairs, o \in {"SUCCESS", "FAILURE"}}
    \cup {GraphEntry(p[1], "COOPERATION",
                     << <<"partners", Arr(<<p[2], p[3]>>)>>,
                        <<"outcome", Str("SUCCESS")>> >>) : p \in AgentTriples}
    \cup {GraphEntry(x, "ECONOMIC", << <<"pnl", Num(100)>> >>) : x \in GraphIds}
    \cup {GraphEntry(x, "POLICY_VIOLATION", <<>>) : x \in GraphIds}

\* The identities of the registry, by id: none, or some of low and high trust.
LowIdentity == [trustScore |-> 3000, cooperation |-> Undefined]
HighIdentity == [trustScore |-> 8000, cooperation |-> Num(9000)]
IdentityMaps ==
    {<<>>,
     [i \in {<<"b">>} |-> LowIdentity],
     [i \in GraphIds |-> IF i = <<"a", "b">> THEN HighIdentity ELSE LowIdentity],
     [i \in GraphIds |-> LowIdentity]}

\* A ledger of graph entries and the identities of its agents.
InitGraph ==
    /\ entries \in UNION {[1..n -> GraphEntries] : n \in 0..MaxEntries}
    /\ ledgerFile = NoFile
    /\ loaded = <<>>
    /\ now = 0
    /\ ret = [op |-> "none", threw |-> FALSE, result |-> "NONE"]
    /\ identities \in IdentityMaps
    /\ lastActionTimestamps = [i \in Ids |-> Undefined]
    /\ storeFile = NoStoreFile
    /\ metrics = Null
    /\ history = <<>>
    /\ trustScore = Null
    /\ proposal = Null
    /\ calls = <<>>

NextGraph ==
    \/ ToJSON
    \/ \E agentId1, agentId2 \in GraphIds : ForecastSynergyOf(agentId1, agentId2)

SpecGraph == InitGraph /\ [][NextGraph]_vars

\* A ledger every agent writes to with its own key pair under its own id, its
\* file, and copies of the file in which one entry is signed anew by the other
\* key pair.
NextForgery ==
    \/ \E privateKey \in PrivateKeys :
            AddEntry(Fingerprint(PublicOf(privateKey)), PublicOf(privateKey),
                     privateKey, Str("ECONOMIC_OUTCOME"), Priced)
    \/ SaveToFile
    \/ LoadFromFile
    \/ \E i \in 1..MaxEntries, privateKey \in PrivateKeys :
            LoadResignedCopy(i, privateKey)

SpecForgery == Init /\ [][NextForgery]_vars

\* A performance object: its metrics and the trustScore property it carries,
\* undefined when the object has none.
Performance(p, score) == <<"performance", p, score>>

\* this.performance once the PersistentAgentIdentity constructor has run at
\* instant t: a supplied performance is taken as it is, the default one gets
\* its trust profile computed and the composite as trustScore.
ConstructedPerformance(performance, t) ==
    IF Truthy(performance) THEN performance
    ELSE Performance(WithLastUpdated(DefaultPerformance, Iso(t)),
                     Num(ScoreOf(DefaultPerformance, <<>>, t).composite))

\* identity.getAuthorityLevel() of an identity whose performance.trustScore is
\* score: a score that is not a number compares false with every threshold.
GetAuthorityLevel(score, t) ==
    IF IsNum(score) THEN ProfileFor(score[2], t).level ELSE "PROBATIONARY"

\* new PersistentAgentIdentity({publicKey, originSystem, performance}) with the
\* performance metrics holds, as registerIdentity, getIdentityById and upgrade
\* call it, and what the identity answers to getTrustScore() and
\* getAuthorityLevel().
NewPersistentAgentIdentity ==
    \E t \in Clock :
        LET performance == ConstructedPerformance(metrics, t)
        IN /\ Len(calls) < MaxCalls
           /\ calls' = Append(calls, [performance |-> performance,
                                      trustScore |-> performance[3],
                                      authority |-> GetAuthorityLevel(performance[3], t)])
           /\ now' = t
           /\ ret' = [op |-> "construct", threw |-> FALSE, result |-> "IDENTITY"]
           /\ UNCHANGED <<ledgerVars, registryVars, metrics, history, trustScore, proposal>>

\* The performances a caller hands to registerAgent or the registry reads back
\* from its store: none, or metrics with or without lastUpdated and with a
\* trustScore that is absent, stale or the composite of the metrics.
SuppliedPerformances ==
    {Null} \cup
    {Performance(WithLastUpdated(ps[1], ps[2]), ps[3]) :
        ps \in {ps \in {DefaultPerformance, FullPerformance, Seasoned, Sparse}
                        \X {Undefined, Iso(0)}
                        \X ({Undefined} \cup {Num(n) : n \in 0..Scale}) :
                    ps[3] \in {Undefined, Num(5000),
                               Num(ScoreOf(ps[1], <<>>, 0).composite)}}}

\* Identities are constructed from the performances supplied.
InitConstruct ==
    /\ Fresh
    /\ metrics \in SuppliedPerformances
    /\ history = <<>>
    /\ trustScore = Null
    /\ proposal = Null
    /\ calls = <<>>

NextConstruct == NewPersistentAgentIdentity

SpecConstruct == InitConstruct /\ [][NextConstruct]_vars

\* An agent whose reliability has sunk below the floor of the decay.
Faded == [Seasoned EXCEPT !.reliability = Num(1000), !.riskExposure = Num(500)]

\* Agents that stay inactive: their performance, last updated at the epoch or
\* never, is evolved with no recent action at any of the instants.
InitDecay ==
    /\ Fresh
    /\ metrics \in {WithLastUpdated(p, l) : p \in {Seasoned, Faded},
                                            l \in {Undefined, Iso(0)}}
    /\ history = <<>>
    /\ trustScore = Null
    /\ proposal = Null
    /\ calls = <<>>

NextDecay == Evolve(<<>>)

SpecDecay == InitDecay /\ [][NextDecay]_vars

\* The API on a disk that takes every write: agents are registered and actions
\* recorded, by registered agents and by agents the registry does not know.
NextRecord ==
    \/ \E publicKey \in PublicKeys :
            RegisterIdentity(publicKey, Str("o1"), Null, Null, FALSE)
    \/ \E privateKey \in PrivateKeys,
          actionType \in {Str("ECONOMIC_OUTCOME"), Str("DELEGATION")} :
            RecordAction(Fingerprint(PublicOf(privateKey)), PublicOf(privateKey),
                         privateKey, actionType, Priced)

SpecRecord == Init /\ [][NextRecord]_vars

(***************************************************************************)
(* Properties of the ledger                                                *)
(***************************************************************************)

\* C1: the genesis entry has prevHash null, every later entry's prevHash is the
\* hash of the entry before it, and entry i (0-based) carries index i.
C1_ChainLinked ==
    \A i \in 1..Len(entries) :
        /\ entries[i].index = Num(i - 1)
        /\ entries[i].prevHash = IF i = 1 THEN Null ELSE entries[i - 1].hash

\* C1 witness: a ledger of two entries, the second added while the first was there.
C1_Witness == Len(entries) = 2 /\ ret.op = "addEntry" /\ ~ret.threw

\* C2: after any sequence of valid addEntry calls on a fresh ledger (the empty
\* ledger included) verifyChain returns valid.
C2_ValidAfterValidAdds == VerifyChain(entries).valid

\* C2 witness: two valid calls were made, by different keys.
C2_Witness ==
    /\ Len(entries) = 2
    /\ entries[1].publicKey # entries[2].publicKey
    /\ ret.op = "addEntry"

\* C8: an addEntry call that throws (a required field missing, or the signing
\* failed) leaves ledger.entries and the ledger file as they were.
C8_FailedAddLeavesLedger ==
    [][(ret'.op = "addEntry" /\ ret'.threw)
          => (entries' = entries /\ ledgerFile' = ledgerFile)]_vars

\* C8 witness: the signing failed on a ledger that holds an entry and has a file.
C8_Witness ==
    /\ ret.op = "addEntry" /\ ret.threw /\ ret.result = "SIGN_ERROR"
    /\ Len(entries) > 0
    /\ ledgerFile.exists

\* C4 (as claimed): no step changes, removes or reorders an entry the ledger holds.
C4_EntriesImmutable ==
    [][\A i \in 1..Len(entries) :
          Len(entries') >= i /\ entries'[i] = entries[i]]_vars

\* tampered differs from original in the property field of entry i, and in
\* nothing else.
TamperedAt(original, tampered, i, field) ==
    /\ Len(tampered) = Len(original)
    /\ \A k \in 1..Len(original), g \in 1..Len(EntryFields) :
          (tampered[k][EntryFields[g]] # original[k][EntryFields[g]])
              <=> (k = i /\ EntryFields[g] = field)

\* C3 (as claimed): when the loaded ledger is the valid ledger in memory with one
\* hash-covered property of one entry i changed, verifyChain of the loaded ledger
\* returns {valid: false, index: i, reason: HASH_MISMATCH}.
C3_TamperIsHashMismatch ==
    \A i \in 1..Len(entries), field \in HashCovered :
        (VerifyChain(entries).valid /\ TamperedAt(entries, loaded, i, field))
            => VerifyChain(loaded) =
                   [valid |-> FALSE, index |-> i - 1, reason |-> "HASH_MISMATCH"]

\* C9: the ledger loadFromFile builds from the file saveToFile wrote holds the
\* entries that were saved, property for property, each of them frozen, and
\* verifyChain returns for it what it returns for the saved entries.
C9_RoundTrip ==
    (ret.op = "loadFromFile" /\ ret.result = "LEDGER") =>
        LET saved == SubSeq(entries, 1, Len(ledgerFile.entries)) IN
        /\ Len(ledgerFile.entries) <= Len(entries)
        /\ loaded = saved
        /\ \A i \in 1..Len(loaded) : loaded[i].frozen
        /\ VerifyChain(loaded) = VerifyChain(saved)

\* C9 witness: a saved ledger of two entries was loaded back.
C9_Witness ==
    /\ ret.op = "loadFromFile" /\ ret.result = "LEDGER"
    /\ Len(loaded) = 2

(***************************************************************************)
(* Properties of the registry                                              *)
(***************************************************************************)

\* C5 (as claimed): once a timestamped validateAction has returned valid for an
\* identity, leaving lastActionTimestamps[id] = t, a correctly signed
\* validateAction naming that identity (not revoked) with a parseable timestamp
\* t' <= t returns REPLAY_DETECTED.
C5_ReplayDetected ==
    \A k \in 1..Len(identities), n \in 0..MaxTime :
        LET raw == identities[k] IN
        (/\ lastActionTimestamps[raw.id] # Undefined
         /\ n <= lastActionTimestamps[raw.id][2]
         /\ ~raw.revoked)
            => ValidateOutcome(identities, lastActionTimestamps, raw.id, Null, Message,
                               Sign(Message, PrivateOf(raw.publicKey)), Iso(n),
                               Null).result = "REPLAY_DETECTED"

\* What validateAction returns for a correctly signed call naming id.
ValidateById(idents, stamps, id) ==
    ValidateOutcome(idents, stamps, id, Null, Message,
                    Sign(Message, Str("sk1")), Null, Null).result

\* C6 (as claimed): once validateAction answers IDENTITY_REVOKED for an identity,
\* it does so after every later registry operation.
C6_RevocationTerminal ==
    [][\A id \in Ids :
          ValidateById(identities, lastActionTimestamps, id) = "IDENTITY_REVOKED"
              => ValidateById(identities', lastActionTimestamps', id)
                     = "IDENTITY_REVOKED"]_vars

\* Some record holds publicKey, and every record that does has another origin.
StoredUnderAnotherOrigin(idents, publicKey, originSystem) ==
    /\ PosByKey(idents, publicKey) # {}
    /\ \A k \in PosByKey(idents, publicKey) : idents[k].originSystem # originSystem

\* All records that share a publicKey share one originSystem.
OneOriginPerKey(idents) ==
    \A j, k \in 1..Len(idents) :
        idents[j].publicKey = idents[k].publicKey
            => idents[j].originSystem = idents[k].originSystem

\* C10: without force, registerIdentity of a publicKey stored under another
\* originSystem throws and leaves the store as it was; and in every store reached
\* by such calls alone, the records sharing a publicKey share one originSystem.
C10_OriginBinding ==
    /\ [](OneOriginPerKey(identities))
    /\ [][\A publicKey \in PublicKeys, originSystem \in Origins,
             id \in {Null, Str("x")}, metadata \in {Null, BareMetadata} :
               (/\ RegisterIdentity(publicKey, originSystem, id, metadata, FALSE)
                /\ StoredUnderAnotherOrigin(identities, publicKey, originSystem))
                   => (/\ ret'.threw
                       /\ identities' = identities
                       /\ lastActionTimestamps' = lastActionTimestamps
                       /\ storeFile' = storeFile)]_vars

\* C10 witness: a registration was refused for its origin while two records
\* share the public key.
C10_Witness ==
    /\ ret.op = "registerIdentity" /\ ret.result = "ORIGIN_CONFLICT"
    /\ \E j, k \in 1..Len(identities) :
          j # k /\ identities[j].publicKey = identities[k].publicKey

\* The reason of the first check that fails, in the order NOT_FOUND, REVOKED,
\* ORIGIN_MISMATCH, INVALID_TIMESTAMP, REPLAY_DETECTED, INVALID_SIGNATURE, where a
\* supplied timestamp is a replay when it is not greater than the stored one.
FirstFailure(idents, stamps, agentId, publicKey, signature, timestamp, originSystem) ==
    LET pos == Resolve(idents, agentId, publicKey)
        raw == idents[pos]
    IN IF pos = 0 THEN "IDENTITY_NOT_FOUND"
       ELSE IF raw.revoked THEN "IDENTITY_REVOKED"
       ELSE IF originSystem # Null /\ raw.originSystem # originSystem
       THEN "ORIGIN_MISMATCH"
       ELSE IF timestamp # Null /\ ~IsTime(timestamp) THEN "INVALID_TIMESTAMP"
       ELSE IF /\ timestamp # Null
               /\ stamps[raw.id] # Undefined
               /\ GetTime(timestamp) <= stamps[raw.id][2]
       THEN "REPLAY_DETECTED"
       ELSE IF ~VerifySignature(raw.publicKey, Message, signature)
       THEN "INVALID_SIGNATURE"
       ELSE "VALID"

\* C11 (as claimed): validateAction returns the reason of the first check that
\* fails, in the fixed order, and valid only when none fails.
C11_FirstFailingCheck ==
    \A actor \in Actors, k \in PrivateKeys, timestamp \in Timestamps,
       originSystem \in Origins \cup {Null} :
        ValidateOutcome(identities, lastActionTimestamps, actor[1], actor[2], Message,
                        Sign(Message, k), timestamp, originSystem).result
            = FirstFailure(identities, lastActionTimestamps, actor[1], actor[2],
                           Sign(Message, k), timestamp, originSystem)

(***************************************************************************)
(* Properties of the ledger with a registry attached                       *)
(***************************************************************************)

\* C7 (as claimed): addEntry appends nothing for an identity the registry holds
\* as revoked.
C7_RevokedCannotAppend ==
    [][Len(entries') > Len(entries) =>
          \A k \in 1..Len(identities) :
              identities[k].id = entries'[Len(entries')].agentId
                  => ~identities[k].revoked]_vars

(***************************************************************************)
(* Properties of the governance tiers                                      *)
(***************************************************************************)

\* The elements of a sequence.
Range(seq) == {seq[k] : k \in 1..Len(seq)}

\* C12: the profile of score s is ELITE_AUTHORITY iff s >= 0.90, HIGH_TRUST iff
\* 0.70 <= s < 0.90, STANDARD_OPERATIONAL iff 0.40 <= s < 0.70, RESTRICTED iff
\* 0.20 <= s < 0.40 and PROBATIONARY otherwise, and it carries the permissions,
\* budget, delegation and validationStrictness of that level's configuration.
C12_TierOfScore ==
    \A k \in 1..Len(calls) :
        LET profile == calls[k]
            s == trustScore
        IN /\ profile.level = "ELITE_AUTHORITY" <=> s >= 9000
           /\ profile.level = "HIGH_TRUST" <=> (7000 <= s /\ s < 9000)
           /\ profile.level = "STANDARD_OPERATIONAL" <=> (4000 <= s /\ s < 7000)
           /\ profile.level = "RESTRICTED" <=> (2000 <= s /\ s < 4000)
           /\ profile.level = "PROBATIONARY" <=> s < 2000
           /\ profile.permissions = LEVELS[profile.level].permissions
           /\ profile.budget = LEVELS[profile.level].budget
           /\ profile.delegation = LEVELS[profile.level].delegation
           /\ profile.validationStrictness = LEVELS[profile.level].validationStrictness

\* C12 witness: the profile of a score that sits on a threshold was computed.
C12_Witness ==
    /\ Len(calls) > 0
    /\ trustScore \in {9000, 7000, 4000, 2000}
    /\ ret.op = "getGovernanceProfile"

\* The limits of profile p1 are at most those of p2, and its permissions are
\* among those of p2.
AtMost(p1, p2) ==
    /\ p1.budget.ceiling <= p2.budget.ceiling
    /\ p1.budget.dailyLimit <= p2.budget.dailyLimit
    /\ p1.budget.singleTransactionLimit <= p2.budget.singleTransactionLimit
    /\ p1.delegation.maxSubAgents <= p2.delegation.maxSubAgents
    /\ Range(p1.permissions) \subseteq Range(p2.permissions)

\* C13: for all scores s1 <= s2 the budget ceiling, daily limit, single
\* transaction limit and maxSubAgents of the profile of s1 are at most those of
\* the profile of s2, and its permissions are a subset.
C13_TieringMonotone ==
    \A k \in 1..Len(calls), s \in Scores :
        /\ trustScore <= s => AtMost(calls[k], ProfileFor(s, now))
        /\ s <= trustScore => AtMost(ProfileFor(s, now), calls[k])

\* C13 witness: the profile of a score in the RESTRICTED band was computed, with
\* lower and higher tiers on either side.
C13_Witness ==
    /\ Len(calls) > 0
    /\ calls[1].level = "RESTRICTED"
    /\ trustScore = 3999

(***************************************************************************)
(* Properties of the validator                                             *)
(***************************************************************************)

\* The configuration the validator uses for an agent of trust score `score`.
ConfigOf(score) == STRICTNESS_LEVELS[ProfileFor(score, now).validationStrictness]

\* C14: validate returns allowed exactly when the risk, economics, policy and
\* consensus checks all pass; validationResults holds the outcome of each of the
\* four, and the reason of a rejection names every check that failed.
C14_AllChecksCollected ==
    \A k \in 1..Len(calls) :
        LET v == calls[k]
            config == ConfigOf(trustScore)
            profile == ProfileFor(trustScore, now)
            risk == ValidateRisk(proposal, config)
            economics == ValidateEconomics(proposal, config, profile)
            policies == ValidatePolicies(proposal, config)
            consensus == ValidateConsensus(proposal, config, trustScore)
            named == {v.reason.failedChecks[j][1] : j \in 1..Len(v.reason.failedChecks)}
        IN /\ v.allowed <=> (risk.passed /\ economics.passed /\ policies.passed
                              /\ consensus.passed)
           /\ v.validationResults = [riskCheck |-> risk, economicCheck |-> economics,
                                      policyCheck |-> policies,
                                      consensusCheck |-> consensus]
           /\ "riskCheck" \in named <=> ~risk.passed
           /\ "economicCheck" \in named <=> ~economics.passed
           /\ "policyCheck" \in named <=> ~policies.passed
           /\ "consensusCheck" \in named <=> ~consensus.passed
           /\ v.reason.head = IF v.allowed THEN "VALIDATION_PASSED" ELSE "VALIDATION_FAILED"

\* C14 witness: a proposal was rejected by all four checks at once.
C14_Witness ==
    /\ Len(calls) = 1
    /\ ret.op = "validate"
    /\ Len(calls[1].reason.failedChecks) = 4

\* The place of a strictness level in the order LAX < STANDARD < STRICT <
\* HIGH_FRICTION < MANDATORY_HUMAN_IN_THE_LOOP.
Rank(strictness) ==
    CASE strictness = "LAX" -> 0
      [] strictness = "STANDARD" -> 1
      [] strictness = "STRICT" -> 2
      [] strictness = "HIGH_FRICTION" -> 3
      [] strictness = "MANDATORY_HUMAN_IN_THE_LOOP" -> 4

\* C15: a proposal rejected for an agent under one strictness level is rejected
\* for every agent under a stricter level.
C15_StricterRejects ==
    \A k \in 1..Len(calls), s \in AgentScores :
        (/\ ~calls[k].allowed
         /\ Rank(ProfileFor(s, now).validationStrictness) > Rank(calls[k].strictnessLevel))
            => ~Validation(s, proposal, now).allowed

\* C15 witness: a proposal was rejected under LAX for want of confirmations only.
C15_Witness ==
    /\ Len(calls) = 1
    /\ calls[1].strictnessLevel = "LAX"
    /\ calls[1].reason.failedChecks = << <<"consensusCheck", "CONFIRMATIONS_REQUIRED">> >>

\* C16: a proposal of a PROBATIONARY agent is admitted only if it carries
\* humanApproved = true and at least 5 confirmations.
C16_HumanInTheLoop ==
    \A k \in 1..Len(calls) :
        (/\ ret.op = "validate"
         /\ ProfileFor(trustScore, now).level = "PROBATIONARY"
         /\ calls[k].allowed)
            => (/\ proposal.humanApproved = Bool(TRUE)
                /\ Greater(proposal.confirmations, 4))

\* C16 witness: a proposal of a PROBATIONARY agent was admitted.
C16_Witness ==
    /\ Len(calls) = 1
    /\ ret.op = "validate"
    /\ calls[1].strictnessLevel = "MANDATORY_HUMAN_IN_THE_LOOP"
    /\ calls[1].allowed

\* The proposal {cost: 5000, impactScore: 0.6, riskScore: 0.5,
\* policyTags: [FINANCIAL, INFRASTRUCTURE]} was validated for an agent whose
\* strictness is STANDARD.
ScenarioValidated ==
    /\ Len(calls) = 1
    /\ ret.op = "validate"
    /\ calls[1].strictnessLevel = "STANDARD"
    /\ proposal.cost = Num(5000)
    /\ proposal.impactScore = Num(6000)
    /\ proposal.riskScore = Num(5000)
    /\ proposal.policyTags = Arr(<<"FINANCIAL", "INFRASTRUCTURE">>)
    /\ proposal.confirmations = Undefined
    /\ proposal.humanApproved = Undefined

\* C17 (as claimed): under STANDARD the proposal passes the risk check, fails no
\* check and is admitted.
C17_ScenarioAdmitted ==
    ScenarioValidated =>
        (/\ calls[1].validationResults.riskCheck.passed
         /\ calls[1].reason.failedChecks = <<>>
         /\ calls[1].allowed)

\* C17 (amended): under STANDARD the proposal passes the risk, policy and
\* consensus checks, fails the economic check (5000 > 2500 * 1.0) and is rejected.
C17_ScenarioRejectedOnCost ==
    ScenarioValidated =>
        (/\ calls[1].validationResults.riskCheck.passed
         /\ calls[1].validationResults.policyCheck.passed
         /\ calls[1].validationResults.consensusCheck.passed
         /\ ~calls[1].validationResults.economicCheck.passed
         /\ calls[1].reason.failedChecks
                = << <<"economicCheck", "COST_EXCEEDS_THRESHOLD">> >>
         /\ ~calls[1].allowed)

\* C17 witness: the scenario was validated for an agent whose impact threshold
\* (0.8 * 0.70) lies below the proposal's impact.
C17_Witness == ScenarioValidated /\ trustScore = 7000

(***************************************************************************)
(* Properties of the trust scores                                          *)
(***************************************************************************)

\* Every metric is present and lies in its declared domain: [0, 1], any number
\* for roi, a count from 0 on for policyViolations.
InDomain(m) ==
    \A name \in MetricNames :
        /\ m[name][1] = "num"
        /\ name \notin {"roi", "policyViolations"} => (0 <= m[name][2] /\ m[name][2] <= Scale)
        /\ name = "policyViolations" => (m[name][2] >= 0 /\ m[name][2] % Scale = 0)

\* value is n / d units to four decimals.
Near(value, n, d) == 2 * (value * d - n) <= d /\ 2 * (n - value * d) <= d

\* C18 (as claimed): for a snapshot whose metrics lie in their domains, 0
\* included, and no history, each dimension equals its closed form and the
\* composite the weighted sum, to four decimals.
C18_ClosedForms ==
    \A k \in 1..Len(calls) :
        (InDomain(metrics) /\ history = <<>>) =>
            LET m == [name \in MetricNames |-> metrics[name][2]]
                d == calls[k].dimensions
            IN /\ Near(d.reliability, 6 * m.uptime + 4 * m.consistency, 10)
               /\ Near(d.efficiency,
                       3 * Min(Max(m.roi, 0), 100 * Scale) + 700 * m.budgetEfficiency, 1000)
               /\ Near(d.cooperation,
                       7 * m.cooperationScore + 3 * m.informationSharingScore, 10)
               /\ Near(d.compliance,
                       8 * Max(0, 10 * Scale - 2 * m.policyViolations)
                           + 20 * m.complianceHistory, 100)
               /\ Near(d.riskSafety, Scale - m.riskExposure, 1)
               /\ Near(d.competence, 8 * m.taskSuccessRate + 2 * m.taskComplexityScore, 10)
               /\ Near(calls[k].composite,
                       15 * d.reliability + 15 * d.efficiency + 20 * d.cooperation
                           + 20 * d.compliance + 15 * d.riskSafety + 15 * d.competence,
                       100)

\* C19 (as claimed): every dimension, every context projection and the composite
\* lie in [0, 1], whatever the snapshot.
C19_ScoresInUnitInterval ==
    \A k \in 1..Len(calls) :
        LET p == calls[k]
            unit(x) == 0 <= x /\ x <= Scale
        IN /\ \A name \in DOMAIN p.dimensions : unit(p.dimensions[name])
           /\ \A name \in DOMAIN p.contexts : unit(p.contexts[name])
           /\ unit(p.composite)

\* C20 (as claimed): a call of calculateScore leaves its inputs as they were, and
\* the second of two calls with the same metrics and history returns what the
\* first returned, in every field.
C20_ScoringDeterministic ==
    [][ret'.op = "calculateScore" =>
          (/\ metrics' = metrics
           /\ history' = history
           /\ Len(calls) = 1 => calls'[2] = calls[1])]_vars

\* The tier of a composite score.
TierOf(score) == ProfileFor(score, 0).level

\* C21 (as claimed): the agent with every metric at its optimum and riskExposure
\* 0.01 scores about 0.99 and is ELITE_AUTHORITY; with policyViolations 4,
\* complianceHistory 0.3 and riskExposure 0.7 its composite is below 0.70 and its
\* tier no higher than STANDARD_OPERATIONAL.
C21_IncidentBelowHighTrust ==
    \A k \in 1..Len(calls) :
        /\ metrics = TieringStart =>
              (calls[k].composite >= 9850 /\ TierOf(calls[k].composite) = "ELITE_AUTHORITY")
        /\ metrics = TieringIncident =>
              /\ calls[k].composite < 7000
              /\ TierOf(calls[k].composite)
                    \in {"STANDARD_OPERATIONAL", "RESTRICTED", "PROBATIONARY"}

\* C21 (amended): the first agent scores 0.9985 and is ELITE_AUTHORITY; after the
\* incident compliance is 0.22 and riskSafety 0.3 (0.27 when the history shows a
\* lower earlier exposure), so the composite is 0.739 (0.7345), not below 0.70, and
\* the tier is HIGH_TRUST.
C21_IncidentStaysHighTrust ==
    \A k \in 1..Len(calls) :
        /\ metrics = TieringStart =>
              (calls[k].composite = 9985 /\ TierOf(calls[k].composite) = "ELITE_AUTHORITY")
        /\ metrics = TieringIncident =>
              /\ calls[k].dimensions.compliance = 2200
              /\ calls[k].composite =
                    (IF history = <<[riskExposure |-> Num(100)]>> THEN 7345 ELSE 7390)
              /\ TierOf(calls[k].composite) = "HIGH_TRUST"

\* C21 witness: the agent after the incident has been scored.
C21_Witness == metrics = TieringIncident /\ Len(calls) > 0 /\ history = <<>>

(***************************************************************************)
(* Properties of the governance by context                                 *)
(***************************************************************************)

\* The strictness of the tier the agent's score for a context falls in.
StrictnessIn(context) == LEVELS[TierOf(GetTrustScore(context))].validationStrictness

\* C22 (as claimed): with a context name the tier is computed from the projection
\* of that context: agent.getGovernanceProfile(context) returns the tier of the
\* projection, and validate(agent, proposal, context) reports the strictness of
\* that tier, so that two contexts of different tiers report different
\* strictness levels.
C22_ContextGoverns ==
    [][/\ ret'.op = "getGovernanceProfile" =>
            calls'[Len(calls')].level = TierOf(GetTrustScore(ret'.context))
       /\ ret'.op = "validate" =>
            calls'[Len(calls')].strictnessLevel = StrictnessIn(ret'.context)]_vars

(***************************************************************************)
(* Properties of the reputation                                            *)
(***************************************************************************)
\* C23 updateReputation(id, recentActions) stores and returns the metrics the
\* evolution yields from the current metrics and recentActions.
C23_ReputationEvolves ==
    [][ret'.op = "updateReputation" /\ Len(calls') > Len(calls)
        => /\ metrics' = Evolved(metrics, ret'.recentActions, now')
           /\ calls'[Len(calls')] = metrics']_vars

\* C30 when updatePerformance raises riskExposure above the value the identity
\* carried, riskSafety is (1 - riskExposure) * 0.9, and 1 - riskExposure when
\* it does not rise.
C30_RisingRiskPenalised ==
    [][ret'.op = "updatePerformance" /\ Len(calls') > Len(calls)
        => LET exposure == metrics'.riskExposure[2]
               riskSafety == calls'[Len(calls')].dimensions.riskSafety
           IN riskSafety = IF exposure > metrics.riskExposure[2]
                           THEN Round(9 * (Scale - exposure), 10)
                           ELSE Scale - exposure]_vars

\* C25 an evolution with no recent actions, less than the grace period after
\* lastUpdated, changes nothing of the performance but lastUpdated.
C25_GraceIsIdentity ==
    [][(/\ ret'.op = "evolve" /\ Len(calls') > Len(calls)
        /\ ret'.recentActions = <<>>
        /\ (Truthy(metrics.lastUpdated)
               => now' - metrics.lastUpdated[2] < DecayGracePeriodHours))
        => LET evolved == calls'[Len(calls')]
           IN /\ DOMAIN evolved = DOMAIN metrics
              /\ \A name \in DOMAIN metrics \ {"lastUpdated"} :
                    evolved[name] = metrics[name]
              /\ evolved.lastUpdated = Iso(now')]_vars

\* An evolution in the last hour of the grace period, of a performance with
\* metrics above the floor, without recent actions.
C25_Witness ==
    /\ ret.op = "evolve" /\ ret.recentActions = <<>>
    /\ metrics.lastUpdated = Iso(0) /\ now = DecayGracePeriodHours - 1
    /\ metrics.reliability = Num(9200)
    /\ calls[Len(calls)].reliability = Num(9200)

(***************************************************************************)
(* Properties of the identity versions                                     *)
(***************************************************************************)
\* C24 an upgrade of a registered identity, whatever metadata it was registered
\* with, succeeds: the record keeps id, publicKey and originSystem, its patch
\* version is one higher and its versionHistory one entry longer.
C24_UpgradeSucceeds ==
    [][ret'.op = "migrateIdentity" /\ ret'.result # "NOT_FOUND"
        => /\ ~ret'.threw
           /\ \E k \in 1..Len(identities) :
                /\ ~UpgradeThrows(identities[k])
                /\ identities' = [identities EXCEPT ![k] = Upgrade(@)]]_vars

(***************************************************************************)
(* Properties of the persistence                                           *)
(***************************************************************************)
\* C26 a call that fails on its write leaves the ledger entries, the identity
\* records with their revoked flags and lastActionTimestamps in memory as they
\* were before the call, so that memory is never ahead of the files.
C26_FailedWriteLeavesMemory ==
    [][ret'.result = "EACCES"
        => UNCHANGED <<entries, identities, lastActionTimestamps>>]_vars

\* C27 constructing the API over a store file or a ledger file that is not
\* JSON raises an exception, and the file keeps its content.
C27_CorruptionSurfaces ==
    [][ret'.op = "construct" /\ (Corrupt(storeFile) \/ Corrupt(ledgerFile))
        => ret'.threw /\ UNCHANGED <<storeFile, ledgerFile>>]_vars

(***************************************************************************)
(* Properties of the chain verification                                    *)
(***************************************************************************)
FailureCodes ==
    {"HASH_MISMATCH", "GENESIS_PREVHASH_NOT_NULL", "CHAIN_LINK_BROKEN", "INVALID_SIGNATURE"}

\* The first check entry i (1-based) of es fails, in the order hash, linkage,
\* signature; "OK" when it passes them all.
FirstFailedCheck(es, i) ==
    IF Hash(SerializeEntryForHash(es[i])) # es[i].hash THEN "HASH_MISMATCH"
    ELSE IF i = 1 /\ es[i].prevHash # Null THEN "GENESIS_PREVHASH_NOT_NULL"
    ELSE IF i > 1 /\ es[i].prevHash # es[i - 1].hash THEN "CHAIN_LINK_BROKEN"
    ELSE IF ~Verify(es[i].hash, es[i].publicKey, es[i].signature) THEN "INVALID_SIGNATURE"
    ELSE "OK"

\* C28 verifyChain of a loaded ledger with a defect reports the smallest index
\* of a defective entry and, as reason, the first check that entry fails: one
\* of the four codes, INVALID_SIGNATURE when only the signature does not verify.
C28_FirstDefectReported ==
    LET bad == {i \in 1..Len(loaded) : FirstFailedCheck(loaded, i) # "OK"}
        result == VerifyChain(loaded)
    IN /\ result.valid <=> bad = {}
       /\ bad # {} =>
            /\ result.index + 1 \in bad
            /\ \A k \in bad : result.index + 1 <= k
            /\ result.reason = FirstFailedCheck(loaded, result.index + 1)
            /\ result.reason \in FailureCodes

(***************************************************************************)
(* Properties of the replay watermark                                      *)
(***************************************************************************)
\* C29 a validateAction that does not return valid leaves lastActionTimestamps
\* and every identity record as they were, also when its timestamp is newer
\* than the watermark and only the signature fails; one that returns valid
\* without a timestamp leaves lastActionTimestamps as it was.
C29_RejectionLeavesWatermark ==
    [][/\ \A actor \in Actors, timestamp \in Timestamps,
             signature \in {Sign(Message, k) : k \in PrivateKeys} \cup {Null},
             originSystem \in {Str("o1"), Null} :
            LET out == ValidateOutcome(identities, lastActionTimestamps, actor[1],
                                       actor[2], Message, signature, timestamp,
                                       originSystem)
            IN (~out.valid \/ ~Truthy(timestamp)) => out.stamps = lastActionTimestamps
       /\ ret'.op = "validateAction" =>
            /\ identities' = identities
            /\ ret'.result # "VALID" =>
                  UNCHANGED <<lastActionTimestamps, storeFile>>]_vars

\* A call with a good timestamp was rejected for its signature alone, and the
\* identity it named still has no watermark.
C29_Witness ==
    /\ ret.op = "validateAction" /\ ret.result = "INVALID_SIGNATURE"
    /\ PosById(identities, Str("did:agent:pk1")) # {}
    /\ lastActionTimestamps[Str("did:agent:pk1")] = Undefined
    /\ storeFile.lastActionTimestamps[Str("did:agent:pk1")] = Undefined

(***************************************************************************)
(* Properties of the store migration                                       *)
(***************************************************************************)
\* The versions v+1, ..., CURRENT in ascending order.
StepsFrom(v) == [k \in 1..(CURRENT_IDENTITY_SCHEMA_VERSION - v) |-> v + k]

\* What a load that starts from version v leaves: one step per version of
\* StepsFrom(v), the registered migrations among them run once each in that
\* order, an identity without schemaVersion stamped by the first default
\* step, and the store marked CURRENT; nothing when there is no step.
MigratedFrom(c, v) ==
    LET steps == StepsFrom(v)
        defaults == SelectSeq(steps, LAMBDA n : n \notin c.migrations)
    IN /\ c.log = steps
       /\ c.store.applied = SelectSeq(steps, LAMBDA n : n \in c.migrations)
       /\ \A k \in DOMAIN c.stored.identities :
             c.store.identities[k] =
                 IF Truthy(c.stored.identities[k].schemaVersion) \/ defaults = <<>>
                 THEN c.stored.identities[k]
                 ELSE [c.stored.identities[k] EXCEPT !.schemaVersion = Num(defaults[1])]
       /\ steps # <<>> =>
             c.store.meta.schemaVersion = Num(CURRENT_IDENTITY_SCHEMA_VERSION)
       /\ steps = <<>> => c.store = c.stored

Graph == BuildFromLedger(entries, identities)

\* The count of the pairs of the collaboration matrix that id is a member of.
CollaborationsOf(g, id) ==
    Sum([k \in 1..Len(g.collaborationMatrix) |->
            IF \E other \in GraphIds : g.collaborationMatrix[k][1] = CollabKey(id, other)
            THEN g.collaborationMatrix[k][2] ELSE 0])

\* C32: for every node, getCentralNodes reports collabFrequency equal to the
\* sum of the collaboration counter over exactly the pairs the node's id is a
\* member of, also when an id is a substring of another, with centralityIndex =
\* 1.5 inDegree + outDegree + 2 collabFrequency and the result sorted by
\* centralityIndex descending.
C32_CollabFrequencyOfMembers ==
    ret.op = "getTrustGraph" =>
        LET central == ret.result.centralNodes
        IN /\ \A k \in 1..Len(central) :
                 /\ central[k].collabFrequency = CollaborationsOf(Graph, central[k].id)
                 /\ central[k].inDegree = NodeOf(Graph, central[k].id).in
                 /\ central[k].outDegree = NodeOf(Graph, central[k].id).out
                 /\ central[k].centralityIndex =
                        15000 * central[k].inDegree + Scale * central[k].outDegree
                        + 2 * Scale * central[k].collabFrequency
           /\ {central[k].id : k \in 1..Len(central)} =
                  {Graph.nodes[k].id : k \in 1..Len(Graph.nodes)}
           /\ \A k \in 1..(Len(central) - 1) :
                 central[k].centralityIndex >= central[k + 1].centralityIndex

\* The ids of the risky nodes, and whether an edge joins two ids.
RiskyIds(g) == {g.nodes[k].id : k \in {j \in 1..Len(g.nodes) : LowTrust(g.nodes[j])}}
Joined(g, x, y) ==
    \E k \in 1..Len(g.edges) :
        \/ g.edges[k].source = x /\ g.edges[k].target = y
        \/ g.edges[k].source = y /\ g.edges[k].target = x

\* x and y are joined by a path of edges that runs through risky nodes only.
RiskyPath(g, x, y) ==
    \E n \in 1..Cardinality(RiskyIds(g)) :
        \E path \in [1..n -> RiskyIds(g)] :
            /\ path[1] = x /\ path[n] = y
            /\ \A k \in 1..(n - 1) : Joined(g, path[k], path[k + 1])

\* C33: getRiskClusters partitions the risky nodes: every node with trustScore
\* < 0.4 or violations > 0 is in exactly one cluster, no other node is in any,
\* two risky nodes share a cluster exactly when a path of edges through risky
\* nodes only joins them, and size, totalViolations and riskLevel = (1 -
\* avgTrust) size + 2 totalViolations are those of the cluster's members.
C33_RiskClustersPartition ==
    ret.op = "getTrustGraph" =>
        LET clusters == ret.result.riskClusters
            places(id) == {<<c, k>> \in (1..Len(clusters)) \X (1..Len(Graph.nodes)) :
                              k <= Len(clusters[c].nodes) /\ clusters[c].nodes[k] = id}
            clusterOf(id) == (CHOOSE place \in places(id) : TRUE)[1]
            members(c) == [k \in 1..Len(clusters[c].nodes) |->
                              NodeOf(Graph, clusters[c].nodes[k])]
        IN /\ \A k \in 1..Len(Graph.nodes) :
                 Cardinality(places(Graph.nodes[k].id)) =
                     IF Graph.nodes[k].id \in RiskyIds(Graph) THEN 1 ELSE 0
           /\ \A x, y \in RiskyIds(Graph) :
                 clusterOf(x) = clusterOf(y) <=> RiskyPath(Graph, x, y)
           /\ \A c \in 1..Len(clusters) :
                 /\ clusters[c].size = Len(clusters[c].nodes)
                 /\ clusters[c].size > 0
                 /\ clusters[c].totalViolations =
                        Sum([k \in 1..clusters[c].size |-> members(c)[k].violations])
                 /\ clusters[c].averageTrust =
                        <<Sum([k \in 1..clusters[c].size |-> members(c)[k].trustScore]),
                          clusters[c].size>>
                 /\ clusters[c].riskLevel =
                        Scale * clusters[c].size - clusters[c].averageTrust[1]
                        + 2 * Scale * clusters[c].totalViolations

\* Two risky agents that are joined through an agent of high trust only are
\* reported in two clusters, and two that are joined in one.
C33_Witness ==
    /\ ret.op = "getTrustGraph"
    /\ RiskyIds(Graph) = {<<"a">>, <<"b">>}
    /\ Joined(Graph, <<"a">>, <<"a", "b">>) /\ Joined(Graph, <<"a", "b">>, <<"b">>)
    /\ ~Joined(Graph, <<"a">>, <<"b">>)
    /\ Len(ret.result.riskClusters) = 2

\* x delegates to y, directly or through other agents.
DelegatesTo(g, x, y) ==
    \E n \in 2..(Len(g.nodes) + 1) :
        \E path \in [1..n -> {g.nodes[k].id : k \in 1..Len(g.nodes)}] :
            /\ path[1] = x /\ path[n] = y
            /\ \A k \in 1..(n - 1) :
                  \E e \in 1..Len(g.edges) :
                      /\ g.edges[e].type = "DELEGATION"
                      /\ g.edges[e].source = path[k] /\ g.edges[e].target = path[k + 1]

\* chain is a path of DELEGATION edges from a seed in which no id repeats, but
\* for a last element that carries the (LOOP) marker.
DelegationPath(g, chain) ==
    LET looped == \E id \in GraphIds : chain[Len(chain)] = id \o LoopMarker
        plain == IF looped THEN SubSeq(chain, 1, Len(chain) - 1) ELSE chain
    IN /\ Includes(Seeds(g, Null), chain[1])
       /\ \A j, k \in 1..Len(plain) : plain[j] = plain[k] => j = k
       /\ \A k \in 1..(Len(plain) - 1) : Includes(DelegationChildren(g, plain[k]), plain[k + 1])
       /\ looped => \E id \in GraphIds :
                        /\ chain[Len(chain)] = id \o LoopMarker
                        /\ Includes(plain, id)
                        /\ Includes(DelegationChildren(g, plain[Len(plain)]), id)

\* C34: getDelegationChains returns on every graph, also one with circular
\* delegation; every chain it reports is a path of DELEGATION edges from a seed
\* in which no id repeats but for a last element with the (LOOP) marker; and
\* every delegation cycle is reported by a chain that ends in the marker.
C34_EveryCycleReported ==
    ret.op = "getTrustGraph" =>
        LET chains == ret.result.delegationChains
        IN /\ \A c \in 1..Len(chains) : DelegationPath(Graph, chains[c])
           /\ \A x \in GraphIds :
                 DelegatesTo(Graph, x, x) =>
                     \E c \in 1..Len(chains), y \in GraphIds :
                         /\ chains[c][Len(chains[c])] = y \o LoopMarker
                         /\ (y = x \/ (DelegatesTo(Graph, x, y) /\ DelegatesTo(Graph, y, x)))

\* The COLLABORATION edges between two agents, in either direction.
CollaborationsBetween(g, agentId1, agentId2) ==
    SelectSeq(g.edges, LAMBDA e :
        /\ \/ e.source = agentId1 /\ e.target = agentId2
           \/ e.source = agentId2 /\ e.target = agentId1
        /\ e.type = "COLLABORATION")

\* C35: forecastSynergy(a, b) takes successRate over exactly the COLLABORATION
\* edges between a and b in either direction, 0.8 when there are none, so that
\* forecastSynergy(a, b) and forecastSynergy(b, a) agree on every field but the
\* order of pair.
C35_ForecastOverCollaborations ==
    (ret.op = "forecastSynergy" /\ "pair" \in DOMAIN ret.result) =>
        LET a == ret.result.pair[1]
            b == ret.result.pair[2]
            swapped == ForecastSynergy(Graph, b, a)
        IN /\ ret.result = ForecastFrom(Graph, a, b, CollaborationsBetween(Graph, a, b))
           /\ [swapped EXCEPT !.pair = <<a, b>>] = ret.result

(***************************************************************************)
(* Properties of the entry signatures                                      *)
(***************************************************************************)
\* C36 (as claimed): every entry addEntry appends verifies under its own stored
\* publicKey, so that verifyChain is valid after every addEntry call that
\* returns an entry.
C36_AppendedEntryVerifies ==
    (ret.op = "addEntry" /\ ~ret.threw) =>
        /\ VerifyEntrySignature(entries[Len(entries)]).valid
        /\ VerifyChain(entries).valid

\* The key pair of the agent an entry names: the id of an agent is the
\* fingerprint of its public key.
SignedByNamedAgent(e) ==
    /\ e.publicKey \in PublicKeys
    /\ Fingerprint(e.publicKey) = e.agentId
    /\ Verify(e.hash, e.publicKey, e.signature)

\* C37 (as claimed): verifyChain returns valid only if every entry was signed by
\* the key of the agent named in entry.agentId; a ledger in which one entry's
\* publicKey and signature were replaced by those of a different key pair does
\* not verify as valid.
C37_ResignedCopyRejected ==
    /\ VerifyChain(loaded).valid =>
            \A i \in 1..Len(loaded) : SignedByNamedAgent(loaded[i])
    /\ ret.result = "RESIGNED" => ~VerifyChain(loaded).valid

(***************************************************************************)
(* Properties of the trust score an identity carries                       *)
(***************************************************************************)
\* C38 (as claimed): every identity the constructor produces, also from a
\* performance the caller supplied, carries a trustScore that is defined and is
\* the composite calculateScore gives for its metrics, and its authority level
\* is the tier of that composite.
C38_TrustScoreOfCurrentMetrics ==
    \A k \in 1..Len(calls) :
        LET composite == ScoreOf(calls[k].performance[2], <<>>, 0).composite
        IN /\ calls[k].trustScore = Num(composite)
           /\ calls[k].authority = ProfileFor(composite, 0).level

(***************************************************************************)
(* Properties of the temporal decay                                        *)
(***************************************************************************)
\* The hours between the last update of the performance evolved and the
\* instant of the evolution that returned after.
ElapsedBefore(after) ==
    IF Truthy(metrics.lastUpdated) THEN after.lastUpdated[2] - metrics.lastUpdated[2]
    ELSE 0

\* Decay left the decayable metric name at or below its prior value, and not
\* below what the floor or the prior value allows.
DecayedWithinFloor(after, name) ==
    /\ after[name][2] <= metrics[name][2]
    /\ after[name][2] >= Min(metrics[name][2], MinMetricFloor)

\* C39 (as claimed): beyond the grace period, an evolution without recent
\* actions leaves every decayable metric at or below its prior value and not
\* below the floor or the prior value, and leaves riskExposure at or above its
\* prior value.
C39_InactivityNeverImproves ==
    \A k \in 1..Len(calls) :
        ElapsedBefore(calls[k]) > DecayGracePeriodHours =>
            /\ \A name \in DecayableMetrics :
                    IsNum(metrics[name]) => DecayedWithinFloor(calls[k], name)
            /\ IsNum(metrics.riskExposure) =>
                    calls[k].riskExposure[2] >= metrics.riskExposure[2]

(***************************************************************************)
(* Properties of recordAction                                              *)
(***************************************************************************)
\* C40 (as claimed): recordAction is all-or-nothing across ledger and registry.
\* If it raises an error, the ledger in memory and on disk holds no entry for
\* the action and the registry store is unchanged; if it returns an entry, the
\* entry and the reputation update have been persisted.
C40_AllOrNothing ==
    [][ret'.op = "recordAction" =>
          IF ret'.threw
          THEN UNCHANGED <<entries, ledgerFile, identities, storeFile>>
          ELSE /\ Len(entries') = Len(entries) + 1
               /\ ledgerFile'.entries = FileOf(entries', now').entries
               /\ identities' # identities =>
                      storeFile' = StoreFileOf(identities', lastActionTimestamps')]_vars

====
